---- MODULE Spec2Model ----
(***************************************************************************)
(* ClearCV: the resume analysis pipeline of app.py (main), analyze_resume   *)
(* and the scoring and insight functions of analysis.py, the severity      *)
(* chart of visualization.py, the list of failures of pdf_generator.py and *)
(* the earlier copy of the overall score in Previous Code Files/c4.py.     *)
(*                                                                         *)
(* Python values are modelled as follows.                                  *)
(*   - a check result (a dict) is a record with the fields check_name,     *)
(*     passed, explanation, severity, category;                            *)
(*   - a list is a sequence; a dict with optional keys is a record whose   *)
(*     DOMAIN holds the keys present ({} is the empty function <<>>);      *)
(*   - a strengths value that may be a list or a string is tagged:         *)
(*     PyList(<<...>>) or PyStr("...");                                    *)
(*   - a score (a float rounded to one decimal) is the integer number of   *)
(*     tenths: 96.2 is 962, 100 is 1000, 0 is 0.                           *)
(***************************************************************************)
EXTENDS Integers, Sequences, FiniteSets, TLC

VARIABLES
    response,            \* what the LLM collaborator answers (immutable text)
    analysis,            \* app.py:88   the dict analyze_resume returned
    results,             \* app.py:95   local of main, the SAME list as analysis["results"]
    strengths,           \* app.py:96   local of main
    overall_score,       \* app.py:106
    category_scores,     \* app.py:107
    recruiter_insights,  \* app.py:110
    ran,                 \* the stages that have produced their output
    pc,                  \* position in main, or "lib" for a direct call of analysis.py
    runs,                \* the analyses under way side by side, each with its own locals
    shown                \* what the PDF report and the dashboard have made of results

vars == <<response, analysis, results, strengths, overall_score,
          category_scores, recruiter_insights, ran, pc, runs, shown>>

-----------------------------------------------------------------------------
(* Bounds and input domains *)

MaxLen == 2

PyList(s) == [kind |-> "list", items |-> s]
PyStr(s) == [kind |-> "str", val |-> s]
EmptyDict == <<>>

Categories == {"Content", "Format", "Consistency", "Relevance", "Credibility"}

\* The checks main() is driven with: two rubric checks, every combination of
\* passed, severity (0, below the threshold, at it, above it) and explanation.
PipeKinds ==
    { [check_name |-> "Unexplained employment gaps", category |-> "Consistency"],
      [check_name |-> "Grammar or spelling mistakes", category |-> "Content"] }
PipeSeverities == {0, 3, 4, 9}
PipeExplanations == {"", "gap 2019-2021"}
PipeChecks ==
    { [check_name |-> k.check_name, passed |-> p, explanation |-> e,
       severity |-> s, category |-> k.category] :
        k \in PipeKinds, p \in BOOLEAN, e \in PipeExplanations, s \in PipeSeverities }

\* The checks the functions of analysis.py are called with directly: any
\* integer severity (negative, beyond 10, large enough to exhaust the score).
LibKinds ==
    { [check_name |-> "Unexplained employment gaps", category |-> "Consistency",
       explanation |-> "gap 2019-2021"],
      [check_name |-> "Grammar or spelling mistakes", category |-> "Content",
       explanation |-> "typos"],
      [check_name |-> "Missing contact information", category |-> "Content",
       explanation |-> "no email"] }
LibSeverities == {-1, 3, 5, 8, 70}
LibChecks ==
    { [check_name |-> k.check_name, passed |-> p, explanation |-> k.explanation,
       severity |-> s, category |-> k.category] :
        k \in LibKinds, p \in BOOLEAN, s \in LibSeverities }

StrengthsInputs ==
    { EmptyDict,
      [top_skills |-> PyList(<<>>), wow_factor |-> PyStr("")],
      [top_skills |-> PyStr("Python")],
      [top_skills |-> PyList(<<"Python", "SQL">>),
       wow_factor |-> PyList(<<"Patent A", "Patent B", "Patent C">>)] }

SeqsUpTo(S, n) == UNION { [1..k -> S] : k \in 0..n }

-----------------------------------------------------------------------------
(* app.py: the significance-threshold loop of main *)

\* dict[key] = value: the key is created when the dict does not have it
Put(dict, key, value) ==
    [k \in DOMAIN dict \cup {key} |-> IF k = key THEN value ELSE dict[k]]

\* Mutants of the loop body: the explanation is left in place; the severity is
\* left in place; the severity is zeroed but the check is not marked passed.
NormalizeResult_KeepsExplanation(result) ==
    IF ~result.passed /\ result.severity < 4
    THEN [result EXCEPT !.passed = TRUE, !.severity = 0]
    ELSE result

NormalizeResult_KeepsSeverity(result) ==
    IF ~result.passed /\ result.severity < 4
    THEN [result EXCEPT !.passed = TRUE, !.explanation = ""]
    ELSE result

NormalizeResult_StillFailed(result) ==
    IF ~result.passed /\ result.severity < 4
    THEN [result EXCEPT !.severity = 0, !.explanation = ""]
    ELSE result

\* Mutant of the loop body: only a severity of the range 0..10 is looked at.
NormalizeResult_RangeChecked(result) ==
    IF ~result.passed /\ 0 <= result.severity /\ result.severity < 4
    THEN Put(Put(Put(result, "passed", TRUE), "severity", 0), "explanation", "")
    ELSE result

\* app.py:100-103, one iteration of the loop body
\* Mutant of the threshold of the loop: 3 in the place of 4.
NormalizeResult_BelowThree(result) ==
    IF ~result.passed /\ result.severity < 3
    THEN Put(Put(Put(result, "passed", TRUE), "severity", 0), "explanation", "")
    ELSE result

NormalizeResult(result) ==
    IF ~result.passed /\ result.severity < 4
    THEN Put(Put(Put(result, "passed", TRUE), "severity", 0), "explanation", "")
    ELSE result

RECURSIVE NormalizeResults_BreakAfterFirst(_)
\* Mutant of the loop: it leaves the loop after the first record it rewrites.
NormalizeResults_BreakAfterFirst(rs) ==
    IF rs = <<>> THEN <<>>
    ELSE IF NormalizeResult(Head(rs)) # Head(rs)
    THEN <<NormalizeResult(Head(rs))>> \o Tail(rs)
    ELSE <<Head(rs)>> \o NormalizeResults_BreakAfterFirst(Tail(rs))

\* app.py:99-103, the loop: every element in turn, in place
NormalizeResults(rs) == [i \in 1..Len(rs) |-> NormalizeResult(rs[i])]

\* Mutant of the test below: a record without 'severity' is refused whatever
\* its 'passed' says.
Raises_AnyMissingKey(result) ==
    "passed" \notin DOMAIN result \/ "severity" \notin DOMAIN result

\* app.py:100, the condition of the loop body raises KeyError: result['passed']
\* is read first, result['severity'] only when the check has not passed
Raises(result) ==
    \/ "passed" \notin DOMAIN result
    \/ ~result.passed /\ "severity" \notin DOMAIN result

\* the index of the first record at which the loop raises, Len(rs) + 1 when
\* it raises at none
FirstRaising(rs) ==
    IF \E i \in 1..Len(rs) : Raises(rs[i])
    THEN CHOOSE i \in 1..Len(rs) :
            Raises(rs[i]) /\ \A j \in 1..(i - 1) : ~Raises(rs[j])
    ELSE Len(rs) + 1

\* Mutant: the error of the loop is swallowed and main goes on.
LoopCompletes_Always(rs) == TRUE

\* the loop runs to its end
LoopCompletes(rs) == FirstRaising(rs) > Len(rs)

\* the list after the loop: the records before the one it raises at have been
\* rewritten, that record and those after it have not been reached
NormalizeLoop(rs) ==
    NormalizeResults(SubSeq(rs, 1, FirstRaising(rs) - 1))
        \o SubSeq(rs, FirstRaising(rs), Len(rs))

-----------------------------------------------------------------------------
(* analysis.py: calculate_overall_score *)

SignificanceThreshold == 4
CriticalThreshold == 8
BaseScore == 100
\* 0.77, in hundredths
PenaltyHundredths == 77

RECURSIVE SumSeverity(_)
\* sum(check['severity'] for check in ...)
SumSeverity(checks) ==
    IF checks = <<>> THEN 0
    ELSE Head(checks).severity + SumSeverity(Tail(checks))

\* Mutant of the filter: every failed check counts, whatever its severity.
IsSignificant_AnyFailure(check) == ~check.passed

\* [check for check in results if not check['passed'] and check['severity'] >= 4]
IsSignificant(check) == ~check.passed /\ check.severity >= SignificanceThreshold
IsRedFlagBand(check) ==
    ~check.passed /\ SignificanceThreshold <= check.severity
                  /\ check.severity < CriticalThreshold
\* Mutant of the selection: the red-flag band (4 <= severity < 8) of
\* generate_recruiter_insights in place of the significance filter.
SignificantIssues_RedFlagBand(rs) == SelectSeq(rs, IsRedFlagBand)

SignificantIssues(rs) == SelectSeq(rs, IsSignificant)

Max(a, b) == IF a >= b THEN a ELSE b
Min(a, b) == IF a <= b THEN a ELSE b

\* The totals at which 100 - total * 0.77 lies halfway between two tenths (the
\* odd multiples of 5) and the IEEE double computed for it lies above the
\* halfway point, so that round(score, 1) goes up; at the other odd multiples
\* of 5 the double lies below it and round goes down.  From 130 on the score
\* is clamped to 0.
FloatTieUp == {5, 15, 25, 115, 125}

\* Mutant of the rounding: the score is cut off after the first decimal.
RoundedScore_Truncated(total_severity) ==
    Max(0, Min(BaseScore * 100,
               BaseScore * 100 - total_severity * PenaltyHundredths)) \div 10

\* round(max(0, min(100, 100 - total * 0.77)), 1), in tenths
RoundedScore(total_severity) ==
    LET score == Max(0, Min(BaseScore * 100,
                            BaseScore * 100 - total_severity * PenaltyHundredths))
        q == score \div 10
        r == score % 10
    IN  IF r > 5 \/ (r = 5 /\ total_severity \in FloatTieUp) THEN q + 1 ELSE q

\* Mutants of calculate_overall_score: the coefficient 1.2 of the earlier copy
\* of the function (no halves occur: 1.2 * total has one decimal); the guard
\* for the empty list left out.
calculate_overall_score_OldCoefficient(rs) ==
    IF rs = <<>> THEN 0
    ELSE Max(0, Min(1000, 1000 - 12 * SumSeverity(SignificantIssues(rs))))

calculate_overall_score_NoEmptyGuard(rs) ==
    RoundedScore(SumSeverity(SignificantIssues(rs)))

calculate_overall_score(rs) ==
    IF rs = <<>> THEN 0
    ELSE RoundedScore(SumSeverity(SignificantIssues(rs)))

-----------------------------------------------------------------------------
(* Previous Code Files/c4.py: the earlier copy of calculate_overall_score *)

\* 1.2, in tenths
PenaltyTenths_c4 == 12

\* [check for check in results if not check['passed'] and check['severity'] >= 4]
SignificantIssues_c4(rs) ==
    SelectSeq(rs, LAMBDA check : ~check.passed /\ check.severity >= 4)

\* Mutant of the earlier copy: a coefficient of 0.5.
calculate_overall_score_c4_HalfPoint(rs) ==
    IF rs = <<>> THEN 0
    ELSE Max(0, Min(1000, 1000 - 5 * SumSeverity(SignificantIssues_c4(rs))))

\* round(max(0, min(100, 100 - total_severity * 1.2)), 1), in tenths; the
\* product has one decimal, so that the rounding changes nothing
calculate_overall_score_c4(rs) ==
    IF rs = <<>> THEN 0
    ELSE Max(0, Min(1000, 1000 - PenaltyTenths_c4 * SumSeverity(SignificantIssues_c4(rs))))

-----------------------------------------------------------------------------
(* analysis.py: calculate_category_scores *)

\* analysis.py:146-150, the copy of a check with an insignificant failure
\* counted as passed
CheckResult(check) ==
    IF ~IsSignificant(check) /\ ~check.passed
    THEN [check EXCEPT !.passed = TRUE]
    ELSE check

\* Mutant of the copy: check_result is check itself, so the flip of 'passed'
\* reaches the caller's record.
CheckAfterGrouping_NoCopy(check) == CheckResult(check)

\* analysis.py:147-150, the caller's record after its turn in the grouping
\* loop: check_result is check.copy(), the assignment to check_result['passed']
\* goes to the copy and check keeps every field
CheckAfterGrouping(check) == check

\* analysis.py:144-153, the caller's list after the grouping loop
ResultsAfterGrouping(category_results) ==
    [i \in 1..Len(category_results) |-> CheckAfterGrouping(category_results[i])]

\* Mutant of the grouping: a check of an unknown category is filed under
\* "Content".
CategoryChecks_UnknownToContent(category_results, c) ==
    SelectSeq([i \in 1..Len(category_results) |-> CheckResult(category_results[i])],
              LAMBDA check :
                  (IF check.category \in Categories THEN check.category ELSE "Content") = c)

\* categories[c] after the grouping loop: the copies whose category is c, in
\* input order
CategoryChecks(category_results, c) ==
    SelectSeq([i \in 1..Len(category_results) |-> CheckResult(category_results[i])],
              LAMBDA check : check.category = c)

Passed(check) == check.passed
Failed(check) == ~check.passed

\* The arithmetic of analysis.py:167-173 is done on IEEE doubles: each of
\* passed / total, 100 * ..., 10 / total, severity_sum * ... and the
\* subtraction gives the double nearest to the exact result, a tie going to
\* the even mantissa, and round(score, 1) gives the tenth nearest to the
\* double it is handed.  The operators below compute exactly that.  A natural
\* number is the sequence of its digits to the base 2^15, lowest first, with no
\* zero digit at the top (0 is << >>); a double is a record [m, e] of value
\* m * 2^e with m below 2^53.  The quotient takes a divisor below 2^16.
Radix == 2^15

RECURSIVE Limbs(_)
Limbs(n) == IF n = 0 THEN << >> ELSE <<n % Radix>> \o Limbs(n \div Radix)

RECURSIVE LimbsValue(_)
LimbsValue(b) == IF b = << >> THEN 0 ELSE Head(b) + Radix * LimbsValue(Tail(b))

Limb(b, i) == IF 1 <= i /\ i <= Len(b) THEN b[i] ELSE 0

\* b without the zero digits at its top
Trim(b) ==
    LET used == {i \in 1..Len(b) : b[i] # 0}
    IN  IF used = {} THEN << >>
        ELSE SubSeq(b, 1, CHOOSE i \in used : \A j \in used : j <= i)

\* the number of binary digits of b
BitLength(b) ==
    IF b = << >> THEN 0
    ELSE 15 * (Len(b) - 1)
         + (CHOOSE k \in 1..15 : 2^(k - 1) <= b[Len(b)] /\ b[Len(b)] < 2^k)

\* the binary digit of weight 2^j
BitAt(b, j) == (Limb(b, j \div 15 + 1) \div 2^(j % 15)) % 2

\* b is a multiple of 2^j
LowBitsZero(b, j) ==
    /\ \A i \in 1..(j \div 15) : Limb(b, i) = 0
    /\ Limb(b, j \div 15 + 1) % 2^(j % 15) = 0

RECURSIVE LimbsPlus(_, _, _)
LimbsPlus(a, b, carry) ==
    IF a = << >> /\ b = << >> THEN Limbs(carry)
    ELSE LET sum == Limb(a, 1) + Limb(b, 1) + carry
         IN  <<sum % Radix>>
             \o LimbsPlus(SubSeq(a, 2, Len(a)), SubSeq(b, 2, Len(b)), sum \div Radix)

RECURSIVE LimbsMinus(_, _, _)
\* a - b for b <= a, before Trim
LimbsMinus(a, b, borrow) ==
    IF a = << >> THEN << >>
    ELSE LET rest == Radix + a[1] - Limb(b, 1) - borrow
         IN  <<rest % Radix>>
             \o LimbsMinus(Tail(a), SubSeq(b, 2, Len(b)), 1 - rest \div Radix)

RECURSIVE LimbsLessFrom(_, _, _)
LimbsLessFrom(a, b, i) ==
    IF i = 0 THEN FALSE
    ELSE IF a[i] # b[i] THEN a[i] < b[i]
    ELSE LimbsLessFrom(a, b, i - 1)

LimbsLess(a, b) ==
    IF Len(a) # Len(b) THEN Len(a) < Len(b) ELSE LimbsLessFrom(a, b, Len(a))

RECURSIVE LimbsTimes(_, _, _)
\* b * c + carry for one digit c
LimbsTimes(b, c, carry) ==
    IF b = << >> THEN Limbs(carry)
    ELSE LET product == Head(b) * c + carry
         IN  <<product % Radix>> \o LimbsTimes(Tail(b), c, product \div Radix)

RECURSIVE LimbsProduct(_, _)
LimbsProduct(a, b) ==
    IF a = << >> \/ b = << >> THEN << >>
    ELSE Trim(LimbsPlus(LimbsTimes(a, Head(b), 0),
                        <<0>> \o LimbsProduct(a, Tail(b)), 0))

\* b * 2^k
ShiftedLeft(b, k) ==
    IF b = << >> THEN << >>
    ELSE [i \in 1..(k \div 15) |-> 0] \o LimbsTimes(b, 2^(k % 15), 0)

\* b \div 2^d
ShiftedRight(b, d) ==
    LET skip == d \div 15
        r == d % 15
    IN  Trim([i \in 1..Max(0, Len(b) - skip) |->
                 Limb(b, i + skip) \div 2^r
                 + (Limb(b, i + skip + 1) % 2^r) * 2^(15 - r)])

\* the integer nearest to b / 2^d, a half going to the even one
RoundedShift(b, d) ==
    IF d = 0 THEN b
    ELSE LET kept == ShiftedRight(b, d)
             half == BitAt(b, d - 1) = 1
             more == ~LowBitsZero(b, d - 1)
             odd == BitAt(b, d) = 1
         IN  IF half /\ (more \/ odd) THEN LimbsPlus(kept, <<1>>, 0) ELSE kept

\* the double nearest to b * 2^e: 53 binary digits are kept
Double(b, e) ==
    LET d == Max(0, BitLength(b) - 53)
        m == RoundedShift(b, d)
    IN  IF BitLength(m) > 53 THEN [m |-> ShiftedRight(m, 1), e |-> e + d + 1]
        ELSE [m |-> m, e |-> e + d]

RECURSIVE FractionLimbs(_, _, _)
\* the first k digits of r / t after the point (r < t), lowest first
FractionLimbs(r, t, k) ==
    IF k = 0 THEN << >>
    ELSE FractionLimbs((Radix * r) % t, t, k - 1) \o <<(Radix * r) \div t>>

RECURSIVE FractionRest(_, _, _)
\* what the division leaves after these k digits
FractionRest(r, t, k) ==
    IF k = 0 THEN r ELSE FractionRest((Radix * r) % t, t, k - 1)

\* the double n / t: five digits after the point give 59 binary digits and
\* more, and a last digit records whether the division left a rest
Quotient(n, t) ==
    LET q == FractionLimbs(n % t, t, 5) \o Limbs(n \div t)
        inexact == IF FractionRest(n % t, t, 5) = 0 THEN 0 ELSE 1
    IN  Double(Trim(<<inexact>> \o q), 0 - 15 * 6)

\* the double c * x for a natural number c
Product(c, x) == Double(LimbsProduct(x.m, Limbs(c)), x.e)

Aligned(x, e) == ShiftedLeft(x.m, x.e - e)

\* the double x + y
Sum(x, y) ==
    LET e == Min(x.e, y.e)
    IN  Double(Trim(LimbsPlus(Aligned(x, e), Aligned(y, e), 0)), e)

\* max(0, x - y)
DifferenceOrZero(x, y) ==
    LET e == Min(x.e, y.e)
        a == Aligned(x, e)
        b == Aligned(y, e)
    IN  IF LimbsLess(b, a) THEN Double(Trim(LimbsMinus(a, b, 0)), e)
        ELSE [m |-> << >>, e |-> 0]

\* round(x, 1), in tenths: the tenth nearest to the double, a half going to
\* the even tenth
Tenths(x) ==
    LET t == LimbsTimes(x.m, 10, 0)
    IN  IF x.e >= 0 THEN LimbsValue(ShiftedLeft(t, x.e))
        ELSE LimbsValue(RoundedShift(t, 0 - x.e))

\* round(max(0, 100 * (passed / total) - severity_sum * (10 / total)), 1), in
\* tenths (total > 0).  A negative severity_sum gives the deduction the sign
\* of severity_sum, so that the subtraction adds its size.
RoundedCategoryScore(passed, total, severity_sum) ==
    LET base == Product(100, Quotient(passed, total))
        severity_deduction ==
            Product(IF severity_sum < 0 THEN 0 - severity_sum ELSE severity_sum,
                    Quotient(10, total))
        score == IF severity_sum < 0 THEN Sum(base, severity_deduction)
                 ELSE DifferenceOrZero(base, severity_deduction)
    IN  Tenths(score)

\* Mutants of the category score: no floor at 0; the deduction not divided by
\* the size of the category.
CategoryScore_NoFloor(checks) ==
    IF checks = <<>> THEN 1000
    ELSE LET passed == Len(SelectSeq(checks, Passed))
             total == Len(checks)
             severity_sum == SumSeverity(SelectSeq(checks, Failed))
         IN  (1000 * passed - 100 * severity_sum) \div total

CategoryScore_UnscaledDeduction(checks) ==
    IF checks = <<>> THEN 1000
    ELSE LET passed == Len(SelectSeq(checks, Passed))
             total == Len(checks)
             severity_sum == SumSeverity(SelectSeq(checks, Failed))
         IN  RoundedCategoryScore(passed, total, severity_sum * total)

\* analysis.py:158-173, the score of one category from its checks
CategoryScore(checks) ==
    IF checks = <<>> THEN 1000
    ELSE LET passed == Len(SelectSeq(checks, Passed))
             total == Len(checks)
             severity_sum == SumSeverity(SelectSeq(checks, Failed))
         IN  RoundedCategoryScore(passed, total, severity_sum)

calculate_category_scores(category_results) ==
    [c \in Categories |-> CategoryScore(CategoryChecks(category_results, c))]

-----------------------------------------------------------------------------
(* analysis.py: generate_recruiter_insights *)

RECURSIVE Join(_, _)
\* sep.join(strs)
Join(sep, strs) ==
    IF strs = <<>> THEN ""
    ELSE IF Len(strs) = 1 THEN strs[1]
    ELSE strs[1] \o sep \o Join(sep, Tail(strs))

\* truthiness of a str or list value
Truthy(v) == IF v.kind = "list" THEN v.items # <<>> ELSE v.val # ""

\* strengths.get(key, default)
Get(dict, key, default) == IF key \in DOMAIN dict THEN dict[key] ELSE default

\* f"{check['check_name']}: {check['explanation']}"
IssueItem(check) == check.check_name \o ": " \o check.explanation
IssueItems(checks) == [i \in 1..Len(checks) |-> IssueItem(checks[i])]

\* Mutant of the warning band: it reaches up to the critical threshold
\* inclusive.
IsRedFlag_UpToCritical(check) ==
    SignificanceThreshold <= check.severity /\ check.severity <= CriticalThreshold

IsDealBreaker(check) == check.severity >= CriticalThreshold
IsRedFlag(check) ==
    SignificanceThreshold <= check.severity /\ check.severity < CriticalThreshold

\* analysis.py:186-192
CriticalInsight(deal_breakers) ==
    [type |-> "critical",
     title |-> "Critical Issues Detected",
     description |-> "Found " \o ToString(Len(deal_breakers))
        \o " critical issues that may significantly impact candidate viability.",
     items |-> IssueItems(deal_breakers)]

\* analysis.py:196-202
WarningInsight(red_flags) ==
    [type |-> "warning",
     title |-> "Potential Red Flags",
     description |-> "Found " \o ToString(Len(red_flags))
        \o " issues that warrant further discussion with the candidate.",
     items |-> IssueItems(red_flags)]

\* analysis.py:211-215
TopSkillsItems(top_skills) ==
    IF ~Truthy(top_skills) THEN <<>>
    ELSE IF top_skills.kind = "list"
    THEN << "Top skills: " \o Join(", ", top_skills.items) >>
    ELSE << "Top skills: " \o top_skills.val >>

\* Mutant of the standout-feature line: the last element is joined with the
\* others and then appended once more.
WowFactorItems_LastTwice(wow_factor) ==
    IF ~Truthy(wow_factor) THEN <<>>
    ELSE IF wow_factor.kind = "list"
    THEN LET n == Len(wow_factor.items)
             joined_wow ==
                 IF n > 1
                 THEN Join(", ", wow_factor.items) \o ", and " \o wow_factor.items[n]
                 ELSE wow_factor.items[1]
         IN  << "Standout feature: " \o joined_wow >>
    ELSE << "Standout feature: " \o wow_factor.val >>

\* analysis.py:217-227
WowFactorItems(wow_factor) ==
    IF ~Truthy(wow_factor) THEN <<>>
    ELSE IF wow_factor.kind = "list"
    THEN LET n == Len(wow_factor.items)
             joined_wow ==
                 IF n > 1
                 THEN Join(", ", SubSeq(wow_factor.items, 1, n - 1))
                        \o ", and " \o wow_factor.items[n]
                 ELSE wow_factor.items[1]
         IN  << "Standout feature: " \o joined_wow >>
    ELSE << "Standout feature: " \o wow_factor.val >>

\* analysis.py:229-234
StrengthInsight(top_skills, wow_factor) ==
    [type |-> "strength",
     title |-> "Resume Strengths",
     description |-> "Key strengths identified in this candidate's resume:",
     items |-> TopSkillsItems(top_skills) \o WowFactorItems(wow_factor)]

\* Mutant of the triage: a check of any other name gives rise to a question
\* too.
InterviewQuestion_AnyName(check) ==
    IF check.check_name = "Unexplained employment gaps"
    THEN << "Ask about the gap between positions: \"" \o check.explanation \o "\"" >>
    ELSE IF check.check_name = "Education and experience mismatch"
    THEN << "Explore transition from education to current career path: \""
             \o check.explanation \o "\"" >>
    ELSE << "Verify skill proficiency: \"" \o check.explanation \o "\"" >>

\* analysis.py:239-244, the question a significant issue gives rise to
InterviewQuestion(check) ==
    IF check.check_name = "Unexplained employment gaps"
    THEN << "Ask about the gap between positions: \"" \o check.explanation \o "\"" >>
    ELSE IF check.check_name = "Education and experience mismatch"
    THEN << "Explore transition from education to current career path: \""
             \o check.explanation \o "\"" >>
    ELSE IF check.check_name = "Experience and skills mismatch"
    THEN << "Verify skill proficiency: \"" \o check.explanation \o "\"" >>
    ELSE <<>>

RECURSIVE InterviewQuestions(_)
\* analysis.py:237-244
InterviewQuestions(significant_results) ==
    IF significant_results = <<>> THEN <<>>
    ELSE InterviewQuestion(Head(significant_results))
            \o InterviewQuestions(Tail(significant_results))

\* analysis.py:247-252
InterviewInsight(interview_questions) ==
    [type |-> "interview",
     title |-> "Suggested Interview Questions",
     description |-> "Based on resume anomalies, consider asking:",
     items |-> interview_questions]

\* Mutant of the order of the groups: the strength group comes first.
generate_recruiter_insights_StrengthFirst(rs, st) ==
    LET significant_results == SignificantIssues(rs)
        deal_breakers == SelectSeq(significant_results, IsDealBreaker)
        red_flags == SelectSeq(significant_results, IsRedFlag)
        top_skills == Get(st, "top_skills", PyList(<<>>))
        wow_factor == Get(st, "wow_factor", PyStr(""))
        interview_questions == InterviewQuestions(significant_results)
    IN  (IF Truthy(top_skills) \/ Truthy(wow_factor)
         THEN << StrengthInsight(top_skills, wow_factor) >> ELSE <<>>)
        \o (IF deal_breakers # <<>> THEN << CriticalInsight(deal_breakers) >> ELSE <<>>)
        \o (IF red_flags # <<>> THEN << WarningInsight(red_flags) >> ELSE <<>>)
        \o (IF interview_questions # <<>>
            THEN << InterviewInsight(interview_questions) >> ELSE <<>>)

\* Mutant of the condition of the strength group: both values are needed.
generate_recruiter_insights_BothNeeded(rs, st) ==
    LET significant_results == SignificantIssues(rs)
        deal_breakers == SelectSeq(significant_results, IsDealBreaker)
        red_flags == SelectSeq(significant_results, IsRedFlag)
        top_skills == Get(st, "top_skills", PyList(<<>>))
        wow_factor == Get(st, "wow_factor", PyStr(""))
        interview_questions == InterviewQuestions(significant_results)
    IN  (IF deal_breakers # <<>> THEN << CriticalInsight(deal_breakers) >> ELSE <<>>)
        \o (IF red_flags # <<>> THEN << WarningInsight(red_flags) >> ELSE <<>>)
        \o (IF Truthy(top_skills) /\ Truthy(wow_factor)
            THEN << StrengthInsight(top_skills, wow_factor) >> ELSE <<>>)
        \o (IF interview_questions # <<>>
            THEN << InterviewInsight(interview_questions) >> ELSE <<>>)

generate_recruiter_insights(rs, st) ==
    LET significant_results == SignificantIssues(rs)
        deal_breakers == SelectSeq(significant_results, IsDealBreaker)
        red_flags == SelectSeq(significant_results, IsRedFlag)
        top_skills == Get(st, "top_skills", PyList(<<>>))
        wow_factor == Get(st, "wow_factor", PyStr(""))
        interview_questions == InterviewQuestions(significant_results)
    IN  (IF deal_breakers # <<>> THEN << CriticalInsight(deal_breakers) >> ELSE <<>>)
        \o (IF red_flags # <<>> THEN << WarningInsight(red_flags) >> ELSE <<>>)
        \o (IF Truthy(top_skills) \/ Truthy(wow_factor)
            THEN << StrengthInsight(top_skills, wow_factor) >> ELSE <<>>)
        \o (IF interview_questions # <<>>
            THEN << InterviewInsight(interview_questions) >> ELSE <<>>)

-----------------------------------------------------------------------------
(* pdf_generator.py, app.py and visualization.py: what is shown of results *)

\* Mutant of the list of the report: the critical failures alone.
failed_checks_pdf_CriticalOnly(rs) ==
    SelectSeq(rs, LAMBDA check : ~check.passed /\ check.severity >= 8)

\* pdf_generator.py:154
failed_checks_pdf(rs) ==
    SelectSeq(rs, LAMBDA check : ~check.passed /\ check.severity >= 4)

\* app.py:174
failed_checks_tab(rs) ==
    SelectSeq(rs, LAMBDA check : ~check.passed /\ check.severity >= 4)

SeverityLevels == {"Critical", "Moderate", "Minor", "No Issues"}

\* Mutant of the chain: Moderate begins above 4, so that a failed check of
\* severity 4 is Minor.
LevelOf_ModerateAboveFour(check) ==
    IF check.passed THEN "No Issues"
    ELSE IF check.severity >= 8 THEN "Critical"
    ELSE IF check.severity > 4 THEN "Moderate"
    ELSE IF check.severity >= 1 THEN "Minor"
    ELSE "none"

\* visualization.py:94-102, the level whose count the check raises; the chain
\* has no else: a failed check of severity below 1 raises none ("none")
LevelOf(check) ==
    IF check.passed THEN "No Issues"
    ELSE IF check.severity >= 8 THEN "Critical"
    ELSE IF check.severity >= 4 THEN "Moderate"
    ELSE IF check.severity >= 1 THEN "Minor"
    ELSE "none"

\* visualization.py:85-102, severity_levels after the loop
create_severity_breakdown(rs) ==
    [level \in SeverityLevels |->
        Cardinality({ i \in 1..Len(rs) : LevelOf(rs[i]) = level })]

-----------------------------------------------------------------------------
(* analysis.py: analyze_resume, on the answers of the LLM collaborator *)

\* The answers of the collaborator: the call raises, or the text holds one
\* JSON object with the keys "checks" and "resume_strengths".
Responses ==
    { [kind |-> "raise"] }
    \cup { [kind |-> "object", checks |-> cs, resume_strengths |-> st] :
             cs \in SeqsUpTo(PipeChecks, MaxLen), st \in StrengthsInputs }

\* A JSON object as json.loads returns it
PyDict(d) == [kind |-> "dict", entries |-> d]

\* The other answers.  [kind |-> "text", json |-> v, in_prose |-> b] is the
\* text json.dumps(v) for an object v = PyDict(..) or an array of check
\* objects v = PyList(..), on its own or after a sentence without braces and
\* brackets; [kind |-> "prose"] is a text without braces ("I cannot analyze
\* this resume."); [kind |-> "broken"] is a text whose braces hold no JSON
\* ("{not json}").

\* analysis.py:65, re.search(r'\{.*\}', content, re.DOTALL) finds a match: the
\* text has a '{' with a '}' after it
JsonMatch(content) ==
    \/ content.kind = "broken"
    \/ /\ content.kind = "text"
       /\ \/ content.json.kind = "dict"
          \/ content.json.kind = "list" /\ content.json.items # <<>>

\* analysis.py:67-68, json.loads of the match, the text from the first '{' to
\* the last '}': the object itself; for an array of one object that object;
\* for an array of more the objects with commas between them, which json.loads
\* refuses ("Extra data")
LoadsMatch(content) ==
    IF content.kind = "text" /\ content.json.kind = "dict"
    THEN [raises |-> FALSE, value |-> content.json]
    ELSE IF content.kind = "text" /\ content.json.kind = "list"
            /\ Len(content.json.items) = 1
    THEN [raises |-> FALSE, value |-> PyDict(content.json.items[1])]
    ELSE [raises |-> TRUE]

\* analysis.py:88, json.loads of the whole text
LoadsWhole(content) ==
    IF content.kind = "text" /\ ~content.in_prose
    THEN [raises |-> FALSE, value |-> content.json]
    ELSE [raises |-> TRUE]

\* Mutant of the extraction: an object without "checks" is refused.
Extract_ChecksRequired(value) ==
    IF value.kind # "dict" \/ "checks" \notin DOMAIN value.entries
    THEN [raises |-> TRUE]
    ELSE [raises |-> FALSE,
          returns |-> [results |-> Get(value.entries, "checks", <<>>),
                       parsed |-> TRUE,
                       strengths |-> Get(value.entries, "resume_strengths", EmptyDict)]]

\* analysis.py:71-83 and 91-104: results.get(..) comes before the test
\* isinstance(results, list), and a list has no get (AttributeError)
Extract(value) ==
    IF value.kind # "dict"
    THEN [raises |-> TRUE]
    ELSE [raises |-> FALSE,
          returns |-> [results |-> Get(value.entries, "checks", <<>>),
                       parsed |-> TRUE,
                       strengths |-> Get(value.entries, "resume_strengths", EmptyDict)]]

\* Mutant of the failure value: the text is left out.
ParseFailure_NoRawText(raw_text) == [parsed |-> FALSE]

\* analysis.py:106 and 110
ParseFailure(raw_text) == [raw_text |-> raw_text, parsed |-> FALSE]

\* analysis.py:59-110.  An exception of the call of the model or of the regex
\* branch is caught at line 108 (raw_text is its message, "error"); one of the
\* fallback branch at line 103 (raw_text is the text of the answer).
analyze_resume(resp) ==
    IF resp.kind = "raise"
    THEN [raw_text |-> "error", parsed |-> FALSE]
    ELSE IF resp.kind = "object"
    THEN [results |-> resp.checks, parsed |-> TRUE, strengths |-> resp.resume_strengths]
    ELSE IF JsonMatch(resp)
    THEN IF LoadsMatch(resp).raises THEN ParseFailure("error")
         ELSE IF Extract(LoadsMatch(resp).value).raises THEN ParseFailure("error")
         ELSE Extract(LoadsMatch(resp).value).returns
    ELSE IF LoadsWhole(resp).raises THEN ParseFailure(resp)
         ELSE IF Extract(LoadsWhole(resp).value).raises THEN ParseFailure(resp)
         ELSE Extract(LoadsWhole(resp).value).returns

-----------------------------------------------------------------------------
(* app.py: main, from the "Analyze Resume" button on *)

NoScores == [c \in Categories |-> 0]

Init ==
    /\ response \in Responses
    /\ analysis = EmptyDict
    /\ results = <<>>
    /\ strengths = EmptyDict
    /\ overall_score = 0
    /\ category_scores = NoScores
    /\ recruiter_insights = <<>>
    /\ ran = {}
    /\ pc = "analyze"
    /\ runs = <<>>
    /\ shown = EmptyDict

\* app.py:88
Analyze ==
    /\ pc = "analyze"
    /\ analysis' = analyze_resume(response)
    /\ pc' = "parsed"
    /\ UNCHANGED <<response, results, strengths, overall_score, category_scores,
                   recruiter_insights, ran, runs, shown>>

\* app.py:91-93
ShowParseFailure ==
    /\ pc = "parsed"
    /\ ~analysis.parsed
    /\ pc' = "done"
    /\ UNCHANGED <<response, analysis, results, strengths, overall_score,
                   category_scores, recruiter_insights, ran, runs, shown>>

\* Mutant of Normalize: the loop runs over a copy of analysis["results"].
Normalize_OnCopy ==
    /\ pc = "parsed"
    /\ analysis.parsed
    /\ results' = NormalizeLoop(analysis.results)
    /\ analysis' = analysis
    /\ strengths' = Get(analysis, "strengths", EmptyDict)
    /\ ran' = IF LoopCompletes(analysis.results) THEN ran \cup {"normalize"} ELSE ran
    /\ pc' = IF LoopCompletes(analysis.results) THEN "score" ELSE "error"
    /\ UNCHANGED <<response, overall_score, category_scores, recruiter_insights,
                   runs, shown>>

\* app.py:95-103.  results is analysis["results"] itself, not a copy: the loop
\* rewrites the records of both.  A KeyError of the loop is caught nowhere in
\* main: it ends the run ("error") with the records rewritten so far.
Normalize ==
    /\ pc = "parsed"
    /\ analysis.parsed
    /\ results' = NormalizeLoop(analysis.results)
    /\ analysis' = [analysis EXCEPT !.results = NormalizeLoop(analysis.results)]
    /\ strengths' = Get(analysis, "strengths", EmptyDict)
    /\ ran' = IF LoopCompletes(analysis.results) THEN ran \cup {"normalize"} ELSE ran
    /\ pc' = IF LoopCompletes(analysis.results) THEN "score" ELSE "error"
    /\ UNCHANGED <<response, overall_score, category_scores, recruiter_insights,
                   runs, shown>>

\* app.py:106
Score ==
    /\ pc = "score"
    /\ overall_score' = calculate_overall_score(results)
    /\ ran' = ran \cup {"score"}
    /\ pc' = "category"
    /\ UNCHANGED <<response, analysis, results, strengths, category_scores,
                   recruiter_insights, runs, shown>>

\* app.py:107.  The argument is results, which is analysis["results"].
CategoryScores ==
    /\ pc = "category"
    /\ category_scores' = calculate_category_scores(results)
    /\ results' = ResultsAfterGrouping(results)
    /\ analysis' = [analysis EXCEPT !.results = ResultsAfterGrouping(results)]
    /\ ran' = ran \cup {"category"}
    /\ pc' = "insights"
    /\ UNCHANGED <<response, strengths, overall_score, recruiter_insights, runs, shown>>

\* app.py:110
Insights ==
    /\ pc = "insights"
    /\ recruiter_insights' = generate_recruiter_insights(results, strengths)
    /\ ran' = ran \cup {"insights"}
    /\ pc' = "report"
    /\ UNCHANGED <<response, analysis, results, strengths, overall_score,
                   category_scores, runs, shown>>

\* app.py:113-117 and pdf_generator.py:153-154, the report and the failures it
\* lists under "Detailed Anomaly Analysis"
PdfReport ==
    /\ pc = "report"
    /\ shown' = Put(shown, "pdf_failed_checks", failed_checks_pdf(results))
    /\ ran' = ran \cup {"pdf"}
    /\ pc' = "dashboard"
    /\ UNCHANGED <<response, analysis, results, strengths, overall_score,
                   category_scores, recruiter_insights, runs>>

\* app.py:120-181, the dashboard: the severity chart of line 133 and the
\* failures of the tab "Failed Checks" of line 174
Dashboard ==
    /\ pc = "dashboard"
    /\ shown' = Put(Put(shown, "severity_levels", create_severity_breakdown(results)),
                    "tab_failed_checks", failed_checks_tab(results))
    /\ ran' = ran \cup {"dashboard"}
    /\ pc' = "shown"
    /\ UNCHANGED <<response, analysis, results, strengths, overall_score,
                   category_scores, recruiter_insights, runs>>

Next ==
    \/ Analyze
    \/ ShowParseFailure
    \/ Normalize
    \/ Score
    \/ CategoryScores
    \/ Insights
    \/ PdfReport
    \/ Dashboard

Spec == Init /\ [][Next]_vars

-----------------------------------------------------------------------------
(* main on the texts the model answers with: an object with or without its  *)
(* keys, an array of checks, prose, braces without JSON, or no answer       *)

ParseChecks ==
    { [check_name |-> "Unexplained employment gaps", passed |-> FALSE,
       explanation |-> "gap 2019-2021", severity |-> 9, category |-> "Consistency"],
      [check_name |-> "Grammar or spelling mistakes", passed |-> TRUE,
       explanation |-> "", severity |-> 0, category |-> "Content"] }
ParseStrengths == { EmptyDict, [top_skills |-> PyStr("Python")] }

ParseObjects ==
    { EmptyDict }
        \cup { [checks |-> cs] : cs \in SeqsUpTo(ParseChecks, MaxLen) }
        \cup { [resume_strengths |-> st] : st \in ParseStrengths }
        \cup { [checks |-> cs, resume_strengths |-> st] :
                 cs \in SeqsUpTo(ParseChecks, MaxLen), st \in ParseStrengths }

ParseResponses ==
    { [kind |-> "raise"], [kind |-> "prose"], [kind |-> "broken"] }
        \cup { [kind |-> "text", json |-> PyDict(d), in_prose |-> b] :
                 d \in ParseObjects, b \in BOOLEAN }
        \cup { [kind |-> "text", json |-> PyList(cs), in_prose |-> b] :
                 cs \in SeqsUpTo(ParseChecks, MaxLen), b \in BOOLEAN }

InitParse ==
    /\ response \in ParseResponses
    /\ analysis = EmptyDict
    /\ results = <<>>
    /\ strengths = EmptyDict
    /\ overall_score = 0
    /\ category_scores = NoScores
    /\ recruiter_insights = <<>>
    /\ ran = {}
    /\ pc = "analyze"
    /\ runs = <<>>
    /\ shown = EmptyDict

SpecParse == InitParse /\ [][Next]_vars

-----------------------------------------------------------------------------
(* main on answers that break the contract of the prompt: records without   *)
(* 'passed' or 'severity', severities outside 0..10, a category outside the *)
(* five                                                                      *)

UncheckedBases ==
    { [check_name |-> "Unexplained employment gaps", explanation |-> "gap 2019-2021",
       category |-> "Consistency"],
      [check_name |-> "Custom check", explanation |-> "why",
       category |-> "Other"] }
UncheckedSeverities == {-1, 3, 9, 15}
\* with 'passed' or without it
UncheckedWithPassed ==
    UncheckedBases \cup { Put(b, "passed", p) : b \in UncheckedBases, p \in BOOLEAN }
\* with 'severity' or without it
UncheckedChecks ==
    UncheckedWithPassed
        \cup { Put(r, "severity", sv) : r \in UncheckedWithPassed, sv \in UncheckedSeverities }

UncheckedResponses ==
    { [kind |-> "raise"] }
    \cup { [kind |-> "object", checks |-> cs, resume_strengths |-> EmptyDict] :
             cs \in SeqsUpTo(UncheckedChecks, MaxLen) }

InitUnchecked ==
    /\ response \in UncheckedResponses
    /\ analysis = EmptyDict
    /\ results = <<>>
    /\ strengths = EmptyDict
    /\ overall_score = 0
    /\ category_scores = NoScores
    /\ recruiter_insights = <<>>
    /\ ran = {}
    /\ pc = "analyze"
    /\ runs = <<>>
    /\ shown = EmptyDict

SpecUnchecked == InitUnchecked /\ [][Next]_vars

-----------------------------------------------------------------------------
(* analysis.py called directly: each function on any list of checks, whether *)
(* main's loop has normalized it or not, in any order                        *)

InitLib ==
    /\ response = [kind |-> "none"]
    /\ analysis = EmptyDict
    /\ results \in SeqsUpTo(LibChecks, MaxLen)
    /\ strengths \in StrengthsInputs
    /\ overall_score = 0
    /\ category_scores = NoScores
    /\ recruiter_insights = <<>>
    /\ ran = {}
    /\ pc = "lib"
    /\ runs = <<>>
    /\ shown = EmptyDict

CallOverallScore ==
    /\ pc = "lib"
    /\ "score" \notin ran
    /\ overall_score' = calculate_overall_score(results)
    /\ ran' = ran \cup {"score"}
    /\ UNCHANGED <<response, analysis, results, strengths, category_scores,
                   recruiter_insights, pc, runs, shown>>

CallCategoryScores ==
    /\ pc = "lib"
    /\ "category" \notin ran
    /\ category_scores' = calculate_category_scores(results)
    /\ results' = ResultsAfterGrouping(results)
    /\ ran' = ran \cup {"category"}
    /\ UNCHANGED <<response, analysis, strengths, overall_score,
                   recruiter_insights, pc, runs, shown>>

CallInsights ==
    /\ pc = "lib"
    /\ "insights" \notin ran
    /\ recruiter_insights' = generate_recruiter_insights(results, strengths)
    /\ ran' = ran \cup {"insights"}
    /\ UNCHANGED <<response, analysis, results, strengths, overall_score,
                   category_scores, pc, runs, shown>>

NextLib ==
    \/ CallOverallScore
    \/ CallCategoryScores
    \/ CallInsights

SpecLib == InitLib /\ [][NextLib]_vars

-----------------------------------------------------------------------------
(* app.py:95-133 on any list of checks: the loop of app.py:99-103, then the *)
(* chart of create_severity_breakdown on the list the loop leaves           *)

BreakdownSeverities == {-1, 0, 1, 3, 4, 7, 8, 10}
BreakdownChecks ==
    { [check_name |-> "Unexplained employment gaps", passed |-> p,
       explanation |-> "gap 2019-2021", severity |-> sv, category |-> "Consistency"] :
        p \in BOOLEAN, sv \in BreakdownSeverities }

InitBreakdown ==
    /\ response = [kind |-> "none"]
    /\ analysis = EmptyDict
    /\ results \in SeqsUpTo(BreakdownChecks, MaxLen)
    /\ strengths = EmptyDict
    /\ overall_score = 0
    /\ category_scores = NoScores
    /\ recruiter_insights = <<>>
    /\ ran = {}
    /\ pc = "lib"
    /\ runs = <<>>
    /\ shown = EmptyDict

\* app.py:99-103 on the list, before anything is shown of it
CallThresholdLoop ==
    /\ pc = "lib"
    /\ ran = {}
    /\ results' = NormalizeLoop(results)
    /\ ran' = ran \cup {"normalize"}
    /\ UNCHANGED <<response, analysis, strengths, overall_score, category_scores,
                   recruiter_insights, pc, runs, shown>>

\* app.py:133, reached after the loop only
CallSeverityBreakdown ==
    /\ pc = "lib"
    /\ "normalize" \in ran
    /\ "breakdown" \notin ran
    /\ shown' = Put(shown, "severity_levels", create_severity_breakdown(results))
    /\ ran' = ran \cup {"breakdown"}
    /\ UNCHANGED <<response, analysis, results, strengths, overall_score,
                   category_scores, recruiter_insights, pc, runs>>

NextBreakdown ==
    \/ CallThresholdLoop
    \/ CallSeverityBreakdown

SpecBreakdown == InitBreakdown /\ [][NextBreakdown]_vars

-----------------------------------------------------------------------------
(* Two analyses side by side (two sessions of the app, or a batch in two    *)
(* threads): each runs app.py:95-110 on its own list and strengths record;  *)
(* the steps of the two interleave at every loop iteration and every call   *)

Analyses == {1, 2}

SideChecks ==
    { [check_name |-> "Unexplained employment gaps", passed |-> FALSE,
       explanation |-> "gap 2019-2021", severity |-> 3, category |-> "Consistency"],
      [check_name |-> "Unexplained employment gaps", passed |-> FALSE,
       explanation |-> "gap 2019-2021", severity |-> 9, category |-> "Consistency"],
      [check_name |-> "Grammar or spelling mistakes", passed |-> FALSE,
       explanation |-> "typos", severity |-> 5, category |-> "Content"] }
SideStrengths == { EmptyDict, [top_skills |-> PyStr("Python")] }

\* analysis.py:135-141, the dict a call of calculate_category_scores starts with
FreshCategories == [c \in Categories |-> <<>>]

\* the locals of one analysis at the else branch of app.py:94
StartOfRun(checks, st) ==
    [ delivered |-> checks, results |-> checks, strengths |-> st, i |-> 1,
      categories |-> FreshCategories, overall_score |-> 0,
      category_scores |-> NoScores, recruiter_insights |-> <<>>, pc |-> "normalize" ]

InitSide ==
    /\ response = [kind |-> "none"]
    /\ analysis = EmptyDict
    /\ results = <<>>
    /\ strengths = EmptyDict
    /\ overall_score = 0
    /\ category_scores = NoScores
    /\ recruiter_insights = <<>>
    /\ ran = {}
    /\ pc = "side"
    /\ shown = EmptyDict
    /\ runs \in [Analyses -> { StartOfRun(checks, st) :
                                 checks \in SeqsUpTo(SideChecks, MaxLen),
                                 st \in SideStrengths }]

\* the variables of the single run of main
single == <<response, analysis, results, strengths, overall_score,
            category_scores, recruiter_insights, ran, pc, shown>>

\* app.py:99-103, one iteration of the loop of analysis a
LoopStep(a) ==
    /\ runs[a].pc = "normalize"
    /\ runs[a].i <= Len(runs[a].results)
    /\ runs' = [runs EXCEPT
                  ![a].results[runs[a].i] = NormalizeResult(runs[a].results[runs[a].i]),
                  ![a].i = runs[a].i + 1]
    /\ UNCHANGED single

\* app.py:99, the list is exhausted
LoopEnd(a) ==
    /\ runs[a].pc = "normalize"
    /\ runs[a].i > Len(runs[a].results)
    /\ runs' = [runs EXCEPT ![a].pc = "score"]
    /\ UNCHANGED single

\* app.py:106
RunScore(a) ==
    /\ runs[a].pc = "score"
    /\ runs' = [runs EXCEPT
                  ![a].overall_score = calculate_overall_score(runs[a].results),
                  ![a].pc = "category"]
    /\ UNCHANGED single

\* app.py:107 and analysis.py:135-141, the call creates its dict of categories
EnterCategoryScores(a) ==
    /\ runs[a].pc = "category"
    /\ runs' = [runs EXCEPT ![a].categories = FreshCategories,
                            ![a].i = 1,
                            ![a].pc = "group"]
    /\ UNCHANGED single

\* analysis.py:144-153, one iteration of the grouping loop
GroupStep(a) ==
    /\ runs[a].pc = "group"
    /\ runs[a].i <= Len(runs[a].results)
    /\ LET check_result == CheckResult(runs[a].results[runs[a].i])
       IN  runs' = [runs EXCEPT
                      ![a].categories =
                          IF check_result.category \in Categories
                          THEN [runs[a].categories EXCEPT
                                  ![check_result.category] = Append(@, check_result)]
                          ELSE runs[a].categories,
                      ![a].results[runs[a].i] = CheckAfterGrouping(runs[a].results[runs[a].i]),
                      ![a].i = runs[a].i + 1]
    /\ UNCHANGED single

\* Mutant of the dict of categories: one dict at module level that every call
\* files its checks in.
CategoriesOfCall_ModuleLevel(all, a) ==
    [c \in Categories |-> all[1].categories[c] \o all[2].categories[c]]

\* analysis.py:135, categories is a local of the call: the call of analysis a
\* reads the dict it has filled itself
CategoriesOfCall(all, a) == all[a].categories

\* analysis.py:155-175, the scores of the categories and the return
AggregateScores(a) ==
    /\ runs[a].pc = "group"
    /\ runs[a].i > Len(runs[a].results)
    /\ runs' = [runs EXCEPT
                  ![a].category_scores =
                      [c \in Categories |-> CategoryScore(CategoriesOfCall(runs, a)[c])],
                  ![a].pc = "insights"]
    /\ UNCHANGED single

\* app.py:110
RunInsights(a) ==
    /\ runs[a].pc = "insights"
    /\ runs' = [runs EXCEPT
                  ![a].recruiter_insights =
                      generate_recruiter_insights(runs[a].results, runs[a].strengths),
                  ![a].pc = "done"]
    /\ UNCHANGED single

NextSide ==
    \E a \in Analyses :
        \/ LoopStep(a)
        \/ LoopEnd(a)
        \/ RunScore(a)
        \/ EnterCategoryScores(a)
        \/ GroupStep(a)
        \/ AggregateScores(a)
        \/ RunInsights(a)

SpecSide == InitSide /\ [][NextSide]_vars

-----------------------------------------------------------------------------
(* analysis.py called directly on the checks the interview questions are    *)
(* drawn from: the three names with a template and one without              *)

TriageKinds ==
    { [check_name |-> "Unexplained employment gaps", category |-> "Consistency",
       explanation |-> "gap 2019-2021"],
      [check_name |-> "Education and experience mismatch", category |-> "Relevance",
       explanation |-> "law degree"],
      [check_name |-> "Experience and skills mismatch", category |-> "Relevance",
       explanation |-> "no Rust project"],
      [check_name |-> "Grammar or spelling mistakes", category |-> "Content",
       explanation |-> "typos"] }
TriageSeverities == {3, 6}
TriageChecks ==
    { [check_name |-> k.check_name, passed |-> p, explanation |-> k.explanation,
       severity |-> sv, category |-> k.category] :
        k \in TriageKinds, p \in BOOLEAN, sv \in TriageSeverities }

InitTriage ==
    /\ response = [kind |-> "none"]
    /\ analysis = EmptyDict
    /\ results \in SeqsUpTo(TriageChecks, MaxLen)
    /\ strengths = EmptyDict
    /\ overall_score = 0
    /\ category_scores = NoScores
    /\ recruiter_insights = <<>>
    /\ ran = {}
    /\ pc = "lib"
    /\ runs = <<>>
    /\ shown = EmptyDict

SpecTriage == InitTriage /\ [][NextLib]_vars

-----------------------------------------------------------------------------
(* analysis.py called directly on the rubric with one failure: the missing  *)
(* contact information failed with severity 9 or 10 among passed checks     *)

MaxChecks == 3

FailedContact ==
    { [check_name |-> "Missing contact information", passed |-> FALSE,
       explanation |-> "no email", severity |-> sv, category |-> "Content"] :
        sv \in {9, 10} }
PassedRubric ==
    { [check_name |-> k.check_name, passed |-> TRUE, explanation |-> "",
       severity |-> 0, category |-> k.category] :
        k \in { [check_name |-> "Grammar or spelling mistakes", category |-> "Content"],
                [check_name |-> "Repeated phrases", category |-> "Format"],
                [check_name |-> "Unexplained employment gaps", category |-> "Consistency"] } }
OneFailureChecks == FailedContact \cup PassedRubric

InitOneFailure ==
    /\ response = [kind |-> "none"]
    /\ analysis = EmptyDict
    /\ results \in SeqsUpTo(OneFailureChecks, MaxChecks)
    /\ strengths = EmptyDict
    /\ overall_score = 0
    /\ category_scores = NoScores
    /\ recruiter_insights = <<>>
    /\ ran = {}
    /\ pc = "lib"
    /\ runs = <<>>
    /\ shown = EmptyDict

SpecOneFailure == InitOneFailure /\ [][NextLib]_vars

-----------------------------------------------------------------------------
(* analysis.py called directly on the shapes resume_strengths arrives in:   *)
(* each of top_skills and wow_factor absent, a string or a list of strings  *)

MaxSkills == 2
MaxWow == 3

SkillNames == {"Python", "SQL"}
WowNames == {"Patent A", "Patent B", "Patent C"}

TopSkillsValues ==
    { PyStr(""), PyStr("Python and SQL") }
        \cup { PyList(names) : names \in SeqsUpTo(SkillNames, MaxSkills) }
WowFactorValues ==
    { PyStr(""), PyStr("Holds three patents") }
        \cup { PyList(names) : names \in SeqsUpTo(WowNames, MaxWow) }

\* with each key or without it
StrengthsShapes ==
    { EmptyDict }
        \cup { [top_skills |-> t] : t \in TopSkillsValues }
        \cup { [wow_factor |-> w] : w \in WowFactorValues }
        \cup { [top_skills |-> t, wow_factor |-> w] :
                 t \in TopSkillsValues, w \in WowFactorValues }

\* a critical failure that gives rise to an interview question, and a pass
ShapeChecks ==
    { [check_name |-> "Unexplained employment gaps", passed |-> FALSE,
       explanation |-> "gap 2019-2021", severity |-> 9, category |-> "Consistency"],
      [check_name |-> "Grammar or spelling mistakes", passed |-> TRUE,
       explanation |-> "", severity |-> 0, category |-> "Content"] }

InitShapes ==
    /\ response = [kind |-> "none"]
    /\ analysis = EmptyDict
    /\ results \in SeqsUpTo(ShapeChecks, MaxLen)
    /\ strengths \in StrengthsShapes
    /\ overall_score = 0
    /\ category_scores = NoScores
    /\ recruiter_insights = <<>>
    /\ ran = {}
    /\ pc = "lib"
    /\ runs = <<>>
    /\ shown = EmptyDict

SpecShapes == InitShapes /\ [][NextLib]_vars

-----------------------------------------------------------------------------
(* Claims about the normalization loop of main (specification Spec) *)

\* the main's loop has run over the list the LLM delivered
Normalized == "normalize" \in ran
\* the checks as the LLM delivered them
Delivered == response.checks
\* the LLM delivered this check as a failure below the threshold
LowSeverityFailure(d) == ~d.passed /\ d.severity < 4

\* C1: after the loop, every result delivered with passed = false and
\* severity < 4 has passed = true, severity = 0 and explanation = ""; every
\* other result keeps all its fields; the list keeps its length and order.
C1_NormalizationRewritesLowSeverityFailures ==
    Normalized =>
        /\ Len(results) = Len(Delivered)
        /\ \A i \in 1..Len(Delivered) :
              IF LowSeverityFailure(Delivered[i])
              THEN /\ results[i].passed = TRUE
                   /\ results[i].severity = 0
                   /\ results[i].explanation = ""
                   /\ results[i].check_name = Delivered[i].check_name
                   /\ results[i].category = Delivered[i].category
              ELSE results[i] = Delivered[i]

\* a low-severity failure with an explanation was rewritten, next to a
\* significant failure that was kept
C1_Witness ==
    /\ Normalized
    /\ Len(Delivered) = 2
    /\ LowSeverityFailure(Delivered[1]) /\ Delivered[1].severity = 3
    /\ Delivered[1].explanation # "" /\ results[1].passed
    /\ ~Delivered[2].passed /\ Delivered[2].severity = 4 /\ ~results[2].passed

\* C2: after the loop, every result with passed = false has severity >= 4.
C2_FailedImpliesSignificant ==
    Normalized =>
        \A i \in 1..Len(results) : ~results[i].passed => results[i].severity >= 4

\* the list held a failure of severity 3 and a failure of severity 4
C2_Witness ==
    /\ Normalized
    /\ \E i, j \in 1..Len(Delivered) :
          /\ ~Delivered[i].passed /\ Delivered[i].severity = 3
          /\ ~Delivered[j].passed /\ Delivered[j].severity = 4 /\ ~results[j].passed

\* C3 as stated: after the loop, every result with passed = true has
\* severity = 0 and explanation = "", whatever the LLM delivered.
C3_PassedImpliesClean ==
    Normalized =>
        \A i \in 1..Len(results) :
            results[i].passed => results[i].severity = 0 /\ results[i].explanation = ""

\* C3 as amended: after the loop, a result with passed = true has severity = 0
\* and explanation = "" if the LLM delivered it as a failure or delivered it
\* with severity 0 and an empty explanation; a result delivered with
\* passed = true keeps the severity and explanation it was delivered with.
C3_PassedCleanUnlessDeliveredDirty ==
    Normalized =>
        \A i \in 1..Len(results) :
            /\ (results[i].passed /\ ~Delivered[i].passed)
                  => results[i].severity = 0 /\ results[i].explanation = ""
            /\ Delivered[i].passed
                  => /\ results[i].passed
                     /\ results[i].severity = Delivered[i].severity
                     /\ results[i].explanation = Delivered[i].explanation

\* a demoted failure next to a check delivered with passed = true, severity 9
\* and an explanation
C3_Witness ==
    /\ Normalized
    /\ \E i, j \in 1..Len(Delivered) :
          /\ LowSeverityFailure(Delivered[i]) /\ Delivered[i].severity = 3
          /\ Delivered[i].explanation # "" /\ results[i].passed
          /\ Delivered[j].passed /\ Delivered[j].severity = 9
          /\ Delivered[j].explanation # ""

\* C4: running the loop again over its own output changes nothing.
C4_NormalizationIdempotent ==
    Normalized => NormalizeResults(results) = results

\* the loop rewrote two records of the list
C4_Witness ==
    /\ Normalized
    /\ Len(Delivered) = 2
    /\ results[1] # Delivered[1]
    /\ results[2] # Delivered[2]

-----------------------------------------------------------------------------
(* Claims about the functions of analysis.py (specification SpecLib, their  *)
(* direct calls on any list; C10 under Spec, on the lists main passes)      *)

RECURSIVE PenaltySum(_)
\* the sum of the severities of the results with passed = false and
\* severity >= 4
PenaltySum(rs) ==
    IF rs = <<>> THEN 0
    ELSE (IF ~Head(rs).passed /\ Head(rs).severity >= 4 THEN Head(rs).severity ELSE 0)
            + PenaltySum(Tail(rs))

\* 100 - 0.77 * total clamped to [0, 100], in hundredths
ClampedHundredths(total) ==
    IF 10000 - 77 * total < 0 THEN 0
    ELSE IF 10000 - 77 * total > 10000 THEN 10000
    ELSE 10000 - 77 * total

\* C5: for a non-empty list the overall score is 100 - 0.77 * (the sum of the
\* severities of the results with passed = false and severity >= 4), clamped
\* to [0, 100] and rounded to one decimal (the score is a whole number of
\* tenths at most half a tenth away from the clamped value).
C5_OverallScoreFormula ==
    ("score" \in ran /\ results # <<>>) =>
        LET exact == ClampedHundredths(PenaltySum(results))
        IN  /\ 10 * overall_score - exact <= 5
            /\ exact - 10 * overall_score <= 5

\* a passed check of severity 8 contributes nothing and a failure of
\* severity 5 costs 3.85: the score is 96.15 rounded
C5_Witness ==
    /\ "score" \in ran
    /\ \E i, j \in 1..Len(results) :
          /\ results[i].passed /\ results[i].severity = 8
          /\ ~results[j].passed /\ results[j].severity = 5
    /\ overall_score = 962

\* the types of the groups generate_recruiter_insights returned
InsightTypes == { recruiter_insights[i].type : i \in 1..Len(recruiter_insights) }

\* C6: for the empty list calculate_overall_score returns 0,
\* calculate_category_scores returns 100 for each of the five categories and
\* generate_recruiter_insights returns no critical, warning or interview
\* group, and a strength group only if the strengths record is not empty; no
\* call fails (each of them can be made and yields its value).
C6_EmptyResultSet ==
    results = <<>> =>
        /\ "score" \in ran => overall_score = 0
        /\ "category" \in ran =>
              /\ DOMAIN category_scores = Categories
              /\ \A c \in Categories : category_scores[c] = 1000
        /\ "insights" \in ran =>
              /\ InsightTypes \subseteq {"strength"}
              /\ "strength" \in InsightTypes => strengths # EmptyDict
        /\ ran # {"score", "category", "insights"} => ENABLED NextLib

\* the three functions have returned for the empty list, with strengths given
C6_Witness ==
    /\ results = <<>>
    /\ ran = {"score", "category", "insights"}
    /\ strengths # EmptyDict
    /\ "strength" \in InsightTypes

\* C7: the overall score and every category score lie in [0, 100], for any
\* list and any integer severities.
C7_ScoresInRange ==
    /\ "score" \in ran => overall_score >= 0 /\ overall_score <= 1000
    /\ "category" \in ran =>
          \A c \in Categories : category_scores[c] >= 0 /\ category_scores[c] <= 1000

\* two failures of severity 70 in one category: a deduction beyond 100 in
\* both scores
C7_Witness ==
    /\ {"score", "category"} \subseteq ran
    /\ Len(results) = 2
    /\ ~results[1].passed /\ results[1].severity = 70
    /\ ~results[2].passed /\ results[2].severity = 70
    /\ results[1].category = results[2].category
    /\ overall_score = 0
    /\ category_scores[results[1].category] = 0

\* the severities a significant failure is raised to in C8
RaisedSeverities == {5, 6, 8, 9, 10, 70, 71}
\* the list with the severity of its i-th result replaced
WithSeverity(rs, i, s) == [rs EXCEPT ![i].severity = s]

\* C8: raising the severity of one significant failure (passed = false,
\* severity >= 4), all else equal, never raises the overall score.
C8_OverallScoreMonotone ==
    "score" \in ran =>
        \A i \in 1..Len(results) :
            (~results[i].passed /\ results[i].severity >= 4) =>
                \A s \in RaisedSeverities :
                    s > results[i].severity =>
                        calculate_overall_score(WithSeverity(results, i, s)) <= overall_score

\* a failure of severity 5 whose raise to 8 lowers the score
C8_Witness ==
    /\ "score" \in ran
    /\ \E i \in 1..Len(results) :
          /\ ~results[i].passed /\ results[i].severity = 5
          /\ calculate_overall_score(WithSeverity(results, i, 8)) < overall_score

\* C9: each of the three functions returns on a raw list what it returns on
\* the normalized form of the list.
C9_ScoringIndependentOfNormalization ==
    /\ "score" \in ran => overall_score = calculate_overall_score(NormalizeResults(results))
    /\ "category" \in ran =>
          category_scores = calculate_category_scores(NormalizeResults(results))
    /\ "insights" \in ran =>
          recruiter_insights = generate_recruiter_insights(NormalizeResults(results), strengths)

\* the functions have returned for a list that holds a failure of severity 3,
\* which main's loop would have rewritten, next to a significant failure
C9_Witness ==
    /\ ran = {"score", "category", "insights"}
    /\ \E i, j \in 1..Len(results) :
          /\ ~results[i].passed /\ results[i].severity = 3
          /\ ~results[j].passed /\ results[j].severity = 8
    /\ NormalizeResults(results) # results

\* the results of category c, in input order
InCategory(rs, c) == SelectSeq(rs, LAMBDA r : r.category = c)
RECURSIVE FailedSeverity(_)
\* the sum of the severities of the results with passed = false
FailedSeverity(rs) ==
    IF rs = <<>> THEN 0
    ELSE (IF ~Head(rs).passed THEN Head(rs).severity ELSE 0) + FailedSeverity(Tail(rs))
\* the number of results with passed = true
PassedCount(rs) == Cardinality({ i \in 1..Len(rs) : rs[i].passed })

\* C10: for each of the five categories, the score is 100 if no result has the
\* category; otherwise, with n results in it, p of them passed and S the sum
\* of the severities of the failed ones, it is max(0, 100*p/n - 10*S/n)
\* rounded to one decimal (a whole number of tenths at most half a tenth
\* away).
C10_CategoryScoreFormula ==
    "category" \in ran =>
        \A c \in Categories :
            LET n == Len(InCategory(results, c))
                p == PassedCount(InCategory(results, c))
                S == FailedSeverity(InCategory(results, c))
                exact == IF 1000 * p - 100 * S > 0 THEN 1000 * p - 100 * S ELSE 0
            IN  IF n = 0 THEN category_scores[c] = 1000
                ELSE /\ 2 * (category_scores[c] * n - exact) <= n
                     /\ 2 * (exact - category_scores[c] * n) <= n

\* a category with one passed check and one failure of severity 4 scores 30,
\* and the categories without checks score 100
C10_Witness ==
    /\ "category" \in ran
    /\ Len(results) = 2
    /\ results[1].category = results[2].category
    /\ results[1].passed
    /\ ~results[2].passed /\ results[2].severity = 4
    /\ category_scores[results[1].category] = 300
    /\ category_scores["Format"] = 1000

-----------------------------------------------------------------------------
(* Claims about answers that break the contract (specification             *)
(* SpecUnchecked)                                                          *)

\* the answer was parsed and main has gone through the normalization loop,
\* to its end or to the record it raised at
PastNormalization == response.kind = "object" /\ pc \notin {"analyze", "parsed"}
\* the stages after normalization that have produced their output
StageOutputs == ran \cap {"score", "category", "insights", "pdf"}
\* the record lacks a key the loop reads: 'passed', or 'severity' of a check
\* that has not passed
NeededKeyMissing(d) ==
    \/ "passed" \notin DOMAIN d
    \/ ~d.passed /\ "severity" \notin DOMAIN d
\* no record up to the i-th lacks a key the loop reads
ReachedByLoop(ds, i) == \A j \in 1..i : ~NeededKeyMissing(ds[j])
\* a severity outside 0..10 or a category outside the five
OutOfRange(d) ==
    \/ "severity" \in DOMAIN d /\ (d.severity < 0 \/ d.severity > 10)
    \/ d.category \notin {"Content", "Format", "Consistency", "Relevance", "Credibility"}

\* a failed check of a category outside the five
OutsideCheck ==
    [check_name |-> "Custom check", passed |-> FALSE, explanation |-> "why",
     severity |-> 9, category |-> "Other"]
InFixedCategory(r) ==
    r.category \in {"Content", "Format", "Consistency", "Relevance", "Credibility"}

\* C11: results of a category outside the five are dropped without an error:
\* the mapping has exactly the five categories as keys, and removing such
\* results from the list, or adding one, changes none of the five scores.
C11_UnknownCategoryDropped ==
    "category" \in ran =>
        /\ pc # "error"
        /\ DOMAIN category_scores = {"Content", "Format", "Consistency", "Relevance", "Credibility"}
        /\ category_scores = calculate_category_scores(SelectSeq(results, InFixedCategory))
        /\ category_scores = calculate_category_scores(Append(results, OutsideCheck))

\* a failure of severity 9 of category "Other" next to a failure of
\* "Consistency": only the latter costs anything
C11_Witness ==
    /\ "category" \in ran
    /\ Len(results) = 2
    /\ results[1].category = "Other" /\ ~results[1].passed /\ results[1].severity = 9
    /\ results[2].category = "Consistency" /\ ~results[2].passed
    /\ category_scores["Consistency"] = 0
    /\ category_scores["Content"] = 1000

\* C12 as stated: a check entry with a severity outside 0..10 or a category
\* outside the five makes the pipeline fail with an error; the entry is never
\* scored.
C12_OutOfRangeRejected ==
    (PastNormalization /\ \E i \in 1..Len(Delivered) : OutOfRange(Delivered[i]))
        => pc = "error" /\ StageOutputs = {}

\* C12 as amended: an integer severity outside 0..10 or a category outside the
\* five raises no error (the only error is the KeyError for a missing key); a
\* failed check with a negative severity is turned into a pass by the loop,
\* and a failed check with a severity above 10 is added to the deduction with
\* the severity it was delivered with.
C12_OutOfRangeAccepted ==
    response.kind = "object" =>
        /\ pc = "error" => \E i \in 1..Len(Delivered) : NeededKeyMissing(Delivered[i])
        /\ Normalized =>
              \A i \in 1..Len(Delivered) :
                  (~Delivered[i].passed /\ Delivered[i].severity < 0)
                      => results[i].passed /\ results[i].severity = 0
        /\ ("score" \in ran /\ results # <<>>) =>
              /\ 10 * overall_score - ClampedHundredths(PenaltySum(results)) <= 5
              /\ ClampedHundredths(PenaltySum(results)) - 10 * overall_score <= 5

\* a failure of severity 15 was scored (100 - 11.55) and a failure of
\* severity -1 became a pass
C12_Witness ==
    /\ "score" \in ran
    /\ Len(Delivered) = 2
    /\ ~Delivered[1].passed /\ Delivered[1].severity = 15
    /\ ~Delivered[2].passed /\ Delivered[2].severity = -1
    /\ results[2].passed
    /\ overall_score = 885

\* C13 as stated: a check record without 'severity' or without 'passed'
\* always makes normalization fail.
C13_MissingFieldAlwaysRejected ==
    (PastNormalization /\ \E i \in 1..Len(Delivered) :
            "severity" \notin DOMAIN Delivered[i] \/ "passed" \notin DOMAIN Delivered[i])
        => pc = "error"

\* C13 as amended: normalization fails (a KeyError that leaves main, no later
\* stage runs) exactly when a record lacks 'passed', or has passed = false and
\* lacks 'severity'; a record with passed = true and no 'severity' raises
\* nothing and goes through every stage as an ordinary pass.
C13_RejectedIffNeededKeyMissing ==
    PastNormalization =>
        /\ pc = "error" <=> \E i \in 1..Len(Delivered) : NeededKeyMissing(Delivered[i])
        /\ pc = "error" => StageOutputs = {}
        /\ pc # "error" =>
              \A i \in 1..Len(Delivered) :
                  "severity" \notin DOMAIN Delivered[i]
                      => results[i] = Delivered[i] /\ results[i].passed

\* a record with passed = true and no 'severity' has gone through every stage
C13_Witness ==
    /\ pc = "dashboard"
    /\ StageOutputs = {"score", "category", "insights", "pdf"}
    /\ \E i \in 1..Len(Delivered) :
          /\ "severity" \notin DOMAIN Delivered[i]
          /\ Delivered[i].passed
          /\ category_scores[Delivered[i].category] = 1000
    /\ overall_score = 1000

\* C14: the score, category, insight and PDF stages run only after the answer
\* was parsed and the loop has run over every record; when parsing fails or
\* the loop raises, none of them runs and no output is produced.
C14_StagesOnlyAfterNormalization ==
    /\ StageOutputs # {} =>
          /\ response.kind = "object"
          /\ analysis.parsed
          /\ Normalized
          /\ ReachedByLoop(Delivered, Len(Delivered))
          /\ \A i \in 1..Len(results) : ~LowSeverityFailure(results[i])
    /\ (\/ response.kind = "raise"
        \/ \E i \in 1..Len(Delivered) : NeededKeyMissing(Delivered[i]))
          => /\ StageOutputs = {}
             /\ pc \notin {"score", "category", "insights", "report", "dashboard"}
             /\ overall_score = 0
             /\ category_scores = NoScores
             /\ recruiter_insights = <<>>

\* the loop raised at the second record and main ended without any output
C14_Witness ==
    /\ pc = "error"
    /\ Len(Delivered) = 2
    /\ ~NeededKeyMissing(Delivered[1])
    /\ NeededKeyMissing(Delivered[2])
    /\ StageOutputs = {}

\* C15 as stated: after the normalization step the records of
\* analysis["results"] are as the LLM delivered them, also when the loop
\* stopped with an error.
C15_RawPayloadUntouched ==
    PastNormalization => analysis.results = Delivered

\* the record as the loop leaves it
Rewritten(d) ==
    IF LowSeverityFailure(d)
    THEN [k \in DOMAIN d \cup {"explanation"} |->
            IF k = "passed" THEN TRUE
            ELSE IF k = "severity" THEN 0
            ELSE IF k = "explanation" THEN "" ELSE d[k]]
    ELSE d

\* C15 as amended: results is analysis["results"] itself, and the loop
\* rewrites its records in place: after the step analysis["results"] holds
\* the normalized records; when the loop stopped with an error, the records
\* before the one it stopped at are rewritten, that one and the ones after it
\* are as delivered.
C15_PayloadRewrittenInPlace ==
    PastNormalization =>
        /\ analysis.results = results
        /\ Len(results) = Len(Delivered)
        /\ \A i \in 1..Len(Delivered) :
              results[i] = IF ReachedByLoop(Delivered, i)
                           THEN Rewritten(Delivered[i]) ELSE Delivered[i]

\* the loop rewrote the first record of analysis["results"] and stopped with
\* an error at the second
C15_Witness ==
    /\ pc = "error"
    /\ Len(Delivered) = 2
    /\ ~NeededKeyMissing(Delivered[1])
    /\ ~Delivered[1].passed /\ Delivered[1].severity = 3
    /\ analysis.results[1].passed /\ analysis.results[1].severity = 0
    /\ analysis.results[1].explanation = ""
    /\ "passed" \notin DOMAIN Delivered[2]
    /\ analysis.results[2] = Delivered[2]

-----------------------------------------------------------------------------
(* Claims about the functions of analysis.py as functions (specification    *)
(* SpecLib)                                                                  *)

\* the outputs the calls made so far have left, as functions of the arguments
OutputsOf(rs, st, done, score, scores, insights) ==
    /\ "score" \in done => score = calculate_overall_score(rs)
    /\ "category" \in done => scores = calculate_category_scores(rs)
    /\ "insights" \in done => insights = generate_recruiter_insights(rs, st)

\* C16: the three functions are pure.  Every call leaves the results list,
\* each record in it and the strengths record as they were
\* (calculate_category_scores sets 'passed' on a copy only), and after a call
\* made in any order with the others every output is what the function gives
\* for the arguments alone: no call leaves state behind that a later one sees.
C16_CallsArePure ==
    [][ /\ results' = results
        /\ strengths' = strengths
        /\ OutputsOf(results', strengths', ran', overall_score', category_scores',
                     recruiter_insights') ]_vars

\* all three were called on a list whose first record is a failure below the
\* threshold: its category was scored with the record counted as passed, and
\* the record itself is still failed
C16_Witness ==
    /\ ran = {"score", "category", "insights"}
    /\ Len(results) = 1
    /\ ~results[1].passed /\ results[1].severity = 3
    /\ category_scores[results[1].category] = 1000

-----------------------------------------------------------------------------
(* Claims about the insight groups (specification SpecLib) *)

GroupOrder == << "critical", "warning", "strength", "interview" >>

\* the place of a group type in the fixed order
Rank(type) == CHOOSE k \in 1..Len(GroupOrder) : GroupOrder[k] = type

\* C17: the groups come in the order critical, warning, strength, interview:
\* every group has one of these four types and at least one item, and the
\* places of the types in the fixed order increase strictly along the list
\* (so no type occurs twice and any two groups present keep their relative
\* order).
C17_GroupsInFixedOrder ==
    "insights" \in ran =>
        /\ \A i \in 1..Len(recruiter_insights) :
              /\ \E k \in 1..Len(GroupOrder) : recruiter_insights[i].type = GroupOrder[k]
              /\ recruiter_insights[i].items # <<>>
        /\ \A i, j \in 1..Len(recruiter_insights) :
              i < j => Rank(recruiter_insights[i].type) < Rank(recruiter_insights[j].type)

\* all four groups are present
C17_Witness ==
    /\ "insights" \in ran
    /\ Len(recruiter_insights) = 4
    /\ [i \in 1..4 |-> recruiter_insights[i].type] = GroupOrder

\* the failed records of rs with severity >= 8, and those with
\* 4 <= severity < 8
FailedCritical(rs) == SelectSeq(rs, LAMBDA r : ~r.passed /\ r.severity >= 8)
FailedWarning(rs) ==
    SelectSeq(rs, LAMBDA r : ~r.passed /\ 4 <= r.severity /\ r.severity < 8)

\* "{check_name}: {explanation}" for each record
Rendered(rs) == [i \in 1..Len(rs) |-> rs[i].check_name \o ": " \o rs[i].explanation]

\* the groups of insights with the given type
GroupsOfType(insights, type) == SelectSeq(insights, LAMBDA g : g.type = type)

\* C18: the items of the critical group are the failed results with severity
\* >= 8 and those of the warning group the failed results with
\* 4 <= severity < 8, each as "{check_name}: {explanation}", in input order;
\* a band without results has no group; the description of each group states
\* the number of its items.
C18_SeverityBanding ==
    "insights" \in ran =>
        LET critical == GroupsOfType(recruiter_insights, "critical")
            warning == GroupsOfType(recruiter_insights, "warning")
            deal_breakers == FailedCritical(results)
            red_flags == FailedWarning(results)
        IN  /\ Len(critical) = IF deal_breakers = <<>> THEN 0 ELSE 1
            /\ Len(warning) = IF red_flags = <<>> THEN 0 ELSE 1
            /\ critical # <<>> =>
                  /\ critical[1].items = Rendered(deal_breakers)
                  /\ critical[1].title = "Critical Issues Detected"
                  /\ critical[1].description =
                        "Found " \o ToString(Len(critical[1].items))
                          \o " critical issues that may significantly impact candidate viability."
            /\ warning # <<>> =>
                  /\ warning[1].items = Rendered(red_flags)
                  /\ warning[1].description =
                        "Found " \o ToString(Len(warning[1].items))
                          \o " issues that warrant further discussion with the candidate."

\* a failure of severity 5 followed by one of severity 8: the second is the
\* item of the critical group, the first the item of the warning group
C18_Witness ==
    /\ "insights" \in ran
    /\ Len(results) = 2
    /\ ~results[1].passed /\ results[1].severity = 5
    /\ ~results[2].passed /\ results[2].severity = 8
    /\ recruiter_insights[1].type = "critical"
    /\ recruiter_insights[1].items = Rendered(<<results[2]>>)
    /\ recruiter_insights[2].type = "warning"
    /\ recruiter_insights[2].items = Rendered(<<results[1]>>)

-----------------------------------------------------------------------------
(* Claims about the strength group (specification SpecShapes) *)

\* the value under key is there and is not the empty list or the empty string
NonEmpty(st, key) ==
    /\ key \in DOMAIN st
    /\ IF st[key].kind = "list" THEN Len(st[key].items) > 0 ELSE st[key].val # ""

RECURSIVE CommaChain(_, _)
\* the first k elements of names (k >= 1), a comma and a space between
\* neighbours
CommaChain(names, k) ==
    IF k = 1 THEN names[1] ELSE CommaChain(names, k - 1) \o ", " \o names[k]

\* the top-skills line for a non-empty top_skills
SkillsLine(top_skills) ==
    "Top skills: " \o (IF top_skills.kind = "list"
                       THEN CommaChain(top_skills.items, Len(top_skills.items))
                       ELSE top_skills.val)

\* the standout-feature line for a non-empty wow_factor
StandoutLine(wow_factor) ==
    "Standout feature: " \o
        (IF wow_factor.kind # "list" THEN wow_factor.val
         ELSE LET n == Len(wow_factor.items)
              IN  IF n = 1 THEN wow_factor.items[1]
                  ELSE CommaChain(wow_factor.items, n - 1) \o ", and " \o wow_factor.items[n])

\* C19: the strength group is there if and only if top_skills is non-empty or
\* wow_factor is non-empty, whatever the check results are; its items are the
\* top-skills line (the skills joined with ", " for a list, the string itself
\* otherwise) if top_skills is non-empty, then the standout-feature line if
\* wow_factor is non-empty.
C19_StrengthGroup ==
    "insights" \in ran =>
        LET strength == GroupsOfType(recruiter_insights, "strength")
        IN  /\ Len(strength) =
                  IF NonEmpty(strengths, "top_skills") \/ NonEmpty(strengths, "wow_factor")
                  THEN 1 ELSE 0
            /\ strength # <<>> =>
                  strength[1].items =
                      (IF NonEmpty(strengths, "top_skills")
                       THEN << SkillsLine(strengths.top_skills) >> ELSE <<>>)
                      \o (IF NonEmpty(strengths, "wow_factor")
                          THEN << StandoutLine(strengths.wow_factor) >> ELSE <<>>)

\* a list of two skills and no wow_factor, beside a critical failure: the
\* strength group follows the critical one and holds the joined skills alone
C19_Witness ==
    /\ "insights" \in ran
    /\ strengths = [top_skills |-> PyList(<< "Python", "SQL" >>)]
    /\ Len(results) = 1 /\ ~results[1].passed
    /\ Len(recruiter_insights) = 3
    /\ recruiter_insights[2].type = "strength"
    /\ recruiter_insights[2].items = << "Top skills: Python, SQL" >>

\* the last item of the strength group
LastStrengthItem ==
    LET items == GroupsOfType(recruiter_insights, "strength")[1].items
    IN  items[Len(items)]

\* C20: the standout-feature line, the last item of the strength group, is
\* "Standout feature: " followed, for a list of n > 1 elements, by the first
\* n - 1 joined with ", " and then ", and " and the last one, for a list of
\* one element by that element, for a string by the string; the three patents
\* give "Standout feature: Patent A, Patent B, and Patent C".
C20_StandoutFeatureLine ==
    "insights" \in ran /\ NonEmpty(strengths, "wow_factor") =>
        /\ LastStrengthItem = StandoutLine(strengths.wow_factor)
        /\ strengths.wow_factor = PyList(<< "Patent A", "Patent B", "Patent C" >>) =>
              LastStrengthItem = "Standout feature: Patent A, Patent B, and Patent C"
        /\ strengths.wow_factor = PyList(<< "Patent B", "Patent A" >>) =>
              LastStrengthItem = "Standout feature: Patent B, and Patent A"
        /\ strengths.wow_factor = PyList(<< "Patent C" >>) =>
              LastStrengthItem = "Standout feature: Patent C"
        /\ strengths.wow_factor = PyStr("Holds three patents") =>
              LastStrengthItem = "Standout feature: Holds three patents"

\* two skills and the three patents: the second item of the strength group is
\* the sentence of the three
C20_Witness ==
    /\ "insights" \in ran
    /\ strengths = [top_skills |-> PyList(<< "Python", "SQL" >>),
                    wow_factor |-> PyList(<< "Patent A", "Patent B", "Patent C" >>)]
    /\ results = <<>>
    /\ Len(recruiter_insights) = 1
    /\ recruiter_insights[1].items =
          << "Top skills: Python, SQL",
             "Standout feature: Patent A, Patent B, and Patent C" >>

-----------------------------------------------------------------------------
(* Claims about the interview group (specification SpecTriage) *)

\* the names with a question template, and the opening of each template
TemplateOpening ==
    [ n \in { "Unexplained employment gaps", "Education and experience mismatch",
              "Experience and skills mismatch" } |->
        IF n = "Unexplained employment gaps" THEN "Ask about the gap between positions: "
        ELSE IF n = "Education and experience mismatch"
        THEN "Explore transition from education to current career path: "
        ELSE "Verify skill proficiency: " ]

\* the results that are failed, of severity >= 4 and of a name with a template
Triaged(rs) ==
    SelectSeq(rs, LAMBDA r : /\ ~r.passed
                             /\ r.severity >= 4
                             /\ r.check_name \in DOMAIN TemplateOpening)

\* the items of the interview group, none when the group is not there
InterviewItems ==
    LET interview == GroupsOfType(recruiter_insights, "interview")
    IN  IF interview = <<>> THEN <<>> ELSE interview[1].items

\* C21: the interview group holds one item for each failed result of
\* severity >= 4 named "Unexplained employment gaps", "Education and
\* experience mismatch" or "Experience and skills mismatch", in input order,
\* made of the template of the name with the explanation in quotes; a result
\* of another name, a passed one and one below the threshold give no item.
C21_InterviewTriage ==
    "insights" \in ran =>
        /\ Len(InterviewItems) = Len(Triaged(results))
        /\ \A i \in 1..Len(Triaged(results)) :
              InterviewItems[i] =
                  TemplateOpening[Triaged(results)[i].check_name]
                      \o "\"" \o Triaged(results)[i].explanation \o "\""

\* a failed check of severity 6 without a template, then the employment gaps
\* failed with severity 6: one item, the question about the gap
C21_Witness ==
    /\ "insights" \in ran
    /\ Len(results) = 2
    /\ results[1].check_name = "Grammar or spelling mistakes"
    /\ ~results[1].passed /\ results[1].severity = 6
    /\ results[2].check_name = "Unexplained employment gaps"
    /\ ~results[2].passed /\ results[2].severity = 6
    /\ InterviewItems = << "Ask about the gap between positions: \"gap 2019-2021\"" >>

-----------------------------------------------------------------------------
(* Claims about the pipeline end to end (specification Spec) *)

\* main has produced the score, the category scores and the insights
PipelineDone == {"normalize", "score", "category", "insights"} \subseteq ran

\* the delivered checks with each failure below the threshold counted as a
\* pass
LowCountedAsPass(ds) ==
    [i \in 1..Len(ds) |->
        IF LowSeverityFailure(ds[i]) THEN [ds[i] EXCEPT !.passed = TRUE] ELSE ds[i]]

\* the items of the group of the given type, none when the group is not there
ItemsOfGroup(type) ==
    LET groups == GroupsOfType(recruiter_insights, type)
    IN  IF groups = <<>> THEN <<>> ELSE groups[1].items

\* C22: a check delivered with passed = false and a severity below 4 has
\* passed = true and severity = 0 after normalization; the critical, warning
\* and interview groups hold items for the delivered failures of severity
\* >= 4 only, the deduction of the overall score is made of the severities of
\* these alone, and in the score of its category the check counts among the
\* passed ones and adds nothing to the deduction.
C22_LowSeverityFailureEndToEnd ==
    PipelineDone =>
        /\ \A i \in 1..Len(Delivered) :
              LowSeverityFailure(Delivered[i]) =>
                  results[i].passed /\ results[i].severity = 0
        /\ ItemsOfGroup("critical") = Rendered(FailedCritical(Delivered))
        /\ ItemsOfGroup("warning") = Rendered(FailedWarning(Delivered))
        /\ Len(ItemsOfGroup("interview")) = Len(Triaged(Delivered))
        /\ Delivered # <<>> =>
              LET exact == ClampedHundredths(PenaltySum(Delivered))
              IN  /\ 10 * overall_score - exact <= 5
                  /\ exact - 10 * overall_score <= 5
        /\ \A c \in Categories :
              LET counted == InCategory(LowCountedAsPass(Delivered), c)
                  n == Len(counted)
                  p == PassedCount(counted)
                  S == FailedSeverity(counted)
                  exact == IF 1000 * p - 100 * S > 0 THEN 1000 * p - 100 * S ELSE 0
              IN  IF n = 0 THEN category_scores[c] = 1000
                  ELSE /\ 2 * (category_scores[c] * n - exact) <= n
                       /\ 2 * (exact - category_scores[c] * n) <= n

\* the employment gaps delivered as a failure of severity 3 and again as one
\* of severity 9: the first is a pass in the results, the second alone is in
\* the critical group and the interview group and costs 6.93, and
\* Consistency scores (100 * 1 - 10 * 9) / 2 = 5
C22_Witness ==
    /\ PipelineDone
    /\ Len(Delivered) = 2
    /\ Delivered[1].check_name = "Unexplained employment gaps"
    /\ LowSeverityFailure(Delivered[1]) /\ Delivered[1].severity = 3
    /\ Delivered[2].check_name = "Unexplained employment gaps"
    /\ ~Delivered[2].passed /\ Delivered[2].severity = 9
    /\ results[1].passed /\ results[1].severity = 0
    /\ Len(ItemsOfGroup("critical")) = 1
    /\ Len(ItemsOfGroup("interview")) = 1
    /\ ItemsOfGroup("warning") = <<>>
    /\ overall_score = 931
    /\ category_scores["Consistency"] = 50

-----------------------------------------------------------------------------
(* Claims about the rubric with one failure (specification SpecOneFailure) *)

\* results[i] is the one failed check, it is alone in its category, and every
\* other check is passed with severity 0
OnlyFailure(i) ==
    /\ ~results[i].passed
    /\ \A j \in 1..Len(results) :
          j # i => /\ results[j].passed
                   /\ results[j].severity = 0
                   /\ results[j].category # results[i].category

\* C23: with one failed check of severity 9 in Content, alone in Content, and
\* every other check passed with severity 0, the overall score is
\* 100 - 9 * 0.77 rounded to one decimal (93.1), Content scores 0 and every
\* other category scores 100; a failed check of severity 10 alone in its
\* category brings the category to 0 as well.
C23_SingleFailure ==
    ("score" \in ran /\ "category" \in ran) =>
        \A i \in 1..Len(results) :
            OnlyFailure(i) /\ results[i].severity \in {9, 10} =>
                /\ results[i].severity = 9 => overall_score = 931
                /\ 10 * overall_score - (10000 - 77 * results[i].severity) <= 5
                /\ (10000 - 77 * results[i].severity) - 10 * overall_score <= 5
                /\ category_scores[results[i].category] = 0
                /\ \A c \in Categories :
                      c # results[i].category => category_scores[c] = 1000

\* the missing contact information failed with severity 9 between two passed
\* checks of other categories
C23_Witness ==
    /\ "score" \in ran /\ "category" \in ran
    /\ Len(results) = 3
    /\ OnlyFailure(2)
    /\ results[2].severity = 9 /\ results[2].category = "Content"
    /\ overall_score = 931
    /\ category_scores["Content"] = 0
    /\ category_scores["Format"] = 1000

-----------------------------------------------------------------------------
(* Claims about analyses side by side (specification SpecSide) *)

\* what analysis a has when it runs alone: the locals of main after
\* app.py:110 for its list and its strengths
Alone(a) ==
    LET normalized == NormalizeResults(runs[a].delivered)
    IN  [ results |-> normalized,
          overall_score |-> calculate_overall_score(normalized),
          category_scores |-> calculate_category_scores(normalized),
          recruiter_insights |->
              generate_recruiter_insights(normalized, runs[a].strengths) ]

\* C24: however the steps of two analyses interleave, each ends with the
\* normalized results, the overall score, the category scores and the
\* insights it has when it runs alone, and neither changes the list or the
\* strengths record of the other.
C24_AnalysesIndependent ==
    \A a \in Analyses :
        /\ runs[a].pc = "done" =>
              /\ runs[a].results = Alone(a).results
              /\ runs[a].overall_score = Alone(a).overall_score
              /\ runs[a].category_scores = Alone(a).category_scores
              /\ runs[a].recruiter_insights = Alone(a).recruiter_insights
        /\ runs[a].pc = "normalize" /\ runs[a].i = 1 =>
              runs[a].results = runs[a].delivered

\* both analyses are done, on different lists with checks of the same
\* category, and their Consistency scores differ
C24_Witness ==
    /\ runs[1].pc = "done" /\ runs[2].pc = "done"
    /\ Len(runs[1].delivered) = 2 /\ Len(runs[2].delivered) = 1
    /\ runs[1].delivered[1].category = "Consistency"
    /\ runs[2].delivered[1].category = "Consistency"
    /\ runs[1].delivered[1].severity = 3 /\ runs[2].delivered[1].severity = 9
    /\ runs[1].category_scores["Consistency"] # runs[2].category_scores["Consistency"]

-----------------------------------------------------------------------------
(* Claims about analyze_resume (specification SpecParse) *)

\* analyze_resume has returned
Analyzed == pc # "analyze"

\* the answer is a JSON array of check objects
BareArray == response.kind = "text" /\ response.json.kind = "list"

\* C25: for an answer that is a JSON array of check objects analyze_resume
\* returns parsed = true with the array as results and the empty record as
\* strengths.
C25_BareArrayNormalized ==
    Analyzed /\ BareArray =>
        /\ analysis.parsed
        /\ analysis.results = response.json.items
        /\ analysis.strengths = EmptyDict

\* the JSON object the parse step gets hold of: the object the answer is, or
\* the one object of an array of one
ObjectFound ==
    IF response.kind = "text" /\ response.json.kind = "dict"
    THEN << response.json.entries >>
    ELSE IF BareArray /\ Len(response.json.items) = 1
    THEN << response.json.items[1] >>
    ELSE <<>>

\* C26 as stated: parsed = true is returned only with the checks the answer
\* supplied under "checks"; an answer without a "checks" array is a parse
\* failure.
C26_NoSilentEmptyDefault ==
    Analyzed /\ response.kind # "object" =>
        IF ObjectFound # <<>> /\ "checks" \in DOMAIN ObjectFound[1]
        THEN analysis.parsed /\ analysis.results = ObjectFound[1].checks
        ELSE ~analysis.parsed /\ "raw_text" \in DOMAIN analysis

\* C26 as amended: whenever the parse step gets hold of a JSON object it
\* returns parsed = true, with the empty list for a missing "checks" and the
\* empty record for a missing "resume_strengths"; otherwise it returns
\* parsed = false with raw_text.
C26_MissingKeysDefaultToEmpty ==
    Analyzed /\ response.kind # "object" =>
        IF ObjectFound # <<>>
        THEN /\ analysis.parsed
             /\ analysis.results =
                    IF "checks" \in DOMAIN ObjectFound[1]
                    THEN ObjectFound[1].checks ELSE <<>>
             /\ analysis.strengths =
                    IF "resume_strengths" \in DOMAIN ObjectFound[1]
                    THEN ObjectFound[1].resume_strengths ELSE EmptyDict
        ELSE ~analysis.parsed /\ "raw_text" \in DOMAIN analysis

\* an object with "resume_strengths" and without "checks" went through main
\* as an analysis of zero checks: overall score 0, every category 100
C26_Witness ==
    /\ pc = "dashboard"
    /\ response.kind = "text" /\ response.json.kind = "dict"
    /\ DOMAIN response.json.entries = {"resume_strengths"}
    /\ analysis.parsed /\ analysis.results = <<>>
    /\ analysis.strengths = [top_skills |-> PyStr("Python")]
    /\ overall_score = 0
    /\ \A c \in Categories : category_scores[c] = 1000

\* C30: whatever the model does, analyze_resume returns a record with the
\* key "parsed", with "results" and "strengths" when parsed is true and with
\* "raw_text" when it is false; no exception leaves it.
C30_AnalyzeResumeTotal ==
    Analyzed =>
        /\ "parsed" \in DOMAIN analysis
        /\ analysis.parsed \in BOOLEAN
        /\ IF analysis.parsed
           THEN {"results", "strengths"} \subseteq DOMAIN analysis
           ELSE "raw_text" \in DOMAIN analysis

\* the answer "[]": no match of the regex, json.loads of the whole text gives
\* a list, get fails on it, and the failure comes back as parsed = false with
\* the text
C30_Witness ==
    /\ pc = "done"
    /\ BareArray /\ response.json.items = <<>> /\ ~response.in_prose
    /\ ~analysis.parsed
    /\ analysis.raw_text = response

-----------------------------------------------------------------------------
(* Claims about the two copies of the overall score (specification SpecLib) *)

\* C27: the copy of analysis.py (0.77) and the copy of Previous Code
\* Files/c4.py (1.2) select the same significant issues, both give 0 for the
\* empty list and 100 for a list without significant issue, each is 100 less
\* its coefficient times the same sum of severities, clamped to [0, 100], and
\* the score of analysis.py is never below the one of c4.py.
C27_CopiesDifferInCoefficientOnly ==
    "score" \in ran =>
        /\ SignificantIssues_c4(results) = SignificantIssues(results)
        /\ results = <<>> =>
              overall_score = 0 /\ calculate_overall_score_c4(results) = 0
        /\ results # <<>> /\ SignificantIssues(results) = <<>> =>
              overall_score = 1000 /\ calculate_overall_score_c4(results) = 1000
        /\ results # <<>> =>
              LET total == PenaltySum(results)
                  exact == ClampedHundredths(total)
              IN  /\ 10 * overall_score - exact <= 5
                  /\ exact - 10 * overall_score <= 5
                  /\ calculate_overall_score_c4(results) =
                        IF 1000 - 12 * total < 0 THEN 0 ELSE 1000 - 12 * total
        /\ overall_score >= calculate_overall_score_c4(results)

\* one failure of severity 5: 96.2 with 0.77 and 94 with 1.2
C27_Witness ==
    /\ "score" \in ran
    /\ Len(results) = 1
    /\ ~results[1].passed /\ results[1].severity = 5
    /\ overall_score = 962
    /\ calculate_overall_score_c4(results) = 940

-----------------------------------------------------------------------------
(* Claims about what is shown of the results (specifications Spec and       *)
(* SpecBreakdown)                                                            *)

\* the insights hold neither a critical nor a warning group
NoIssueGroup ==
    \A i \in 1..Len(recruiter_insights) :
        recruiter_insights[i].type \notin {"critical", "warning"}

\* C28: for a non-empty list of results the overall score is exactly 100 if
\* and only if the insights hold neither a critical nor a warning group, if
\* and only if the list of failed checks of the PDF report is empty, if and
\* only if the list of failed checks of the dashboard is empty.
C28_OutputsAgreeOnActionableIssue ==
    pc = "shown" /\ results # <<>> =>
        /\ (overall_score = 1000) <=> NoIssueGroup
        /\ NoIssueGroup <=> (shown.pdf_failed_checks = <<>>)
        /\ (shown.pdf_failed_checks = <<>>) <=> (shown.tab_failed_checks = <<>>)

\* a passed check and a check delivered as a failure of severity 3: the loop
\* made a pass of it, the score is 100 and nothing is listed anywhere
C28_Witness ==
    /\ pc = "shown"
    /\ Len(Delivered) = 2
    /\ Delivered[1].passed
    /\ LowSeverityFailure(Delivered[2]) /\ Delivered[2].severity = 3
    /\ overall_score = 1000
    /\ NoIssueGroup
    /\ shown.pdf_failed_checks = <<>>
    /\ shown.tab_failed_checks = <<>>

\* the sum of the four counts
CountedChecks ==
    shown.severity_levels["Critical"] + shown.severity_levels["Moderate"]
        + shown.severity_levels["Minor"] + shown.severity_levels["No Issues"]

\* the number of checks of the list for which the condition holds
CountOf(rs, Cond(_)) == Cardinality({ i \in 1..Len(rs) : Cond(rs[i]) })

\* the four buckets
IsCritical(r) == ~r.passed /\ r.severity >= 8
IsModerate(r) == ~r.passed /\ 4 <= r.severity /\ r.severity < 8
IsMinor(r) == ~r.passed /\ 1 <= r.severity /\ r.severity < 4
IsNoIssue(r) == r.passed

\* the number of the four buckets the check is in
BucketsOf(r) ==
    Cardinality({ k \in 1..4 : <<IsCritical(r), IsModerate(r), IsMinor(r), IsNoIssue(r)>>[k] })

\* C29: on the list main hands to create_severity_breakdown (the list the
\* loop of app.py:99-103 leaves) every check is in exactly one of the buckets
\* Critical (failed, severity >= 8), Moderate (failed, 4 <= severity < 8),
\* Minor (failed, 1 <= severity < 4) and No Issues (passed), each count is the
\* number of checks of its bucket, the four counts sum to the number of
\* checks, and the Minor count is 0.
C29_EveryCheckInOneBucket ==
    "breakdown" \in ran =>
        /\ \A i \in 1..Len(results) : BucketsOf(results[i]) = 1
        /\ shown.severity_levels["Critical"] = CountOf(results, IsCritical)
        /\ shown.severity_levels["Moderate"] = CountOf(results, IsModerate)
        /\ shown.severity_levels["Minor"] = CountOf(results, IsMinor)
        /\ shown.severity_levels["No Issues"] = CountOf(results, IsNoIssue)
        /\ CountedChecks = Len(results)
        /\ shown.severity_levels["Minor"] = 0

\* the chart of two checks: one the loop made a pass of (its explanation is
\* cleared) and a failure of severity 4
C29_Witness ==
    /\ ran = {"normalize", "breakdown"}
    /\ Len(results) = 2
    /\ results[1].passed /\ results[1].severity = 0 /\ results[1].explanation = ""
    /\ ~results[2].passed /\ results[2].severity = 4
    /\ shown.severity_levels["Critical"] = 0
    /\ shown.severity_levels["Moderate"] = 1
    /\ shown.severity_levels["Minor"] = 0
    /\ shown.severity_levels["No Issues"] = 1

====
